---- MODULE Spec2Model ----
(***************************************************************************)
(* Codenames client engine (src/js/supabase-config.js): the seeded board   *)
(* generator, the turn-resolution state machine and the last-write-wins    *)
(* synchronizer against the shared remote store.                           *)
(*                                                                         *)
(* Strings the code looks into are sequences of UTF-16 char codes (a       *)
(* GameCode, a clue word); null of such a field is the empty sequence,     *)
(* which the code never stores in it.  A 32-bit integer is a pair          *)
(* <<hi, lo>> of 16-bit halves, so that Math.imul, ^, | and >>> keep their *)
(* exact wrap-around semantics.  Array indexes are 0-based as in the code; *)
(* the sequences that hold the arrays are 1-based.                         *)
(***************************************************************************)
EXTENDS Integers, Sequences, FiniteSets, TLC

VARIABLES
    wordList,            \* the contents of the shared global array WORD_LIST
    boardCode,           \* board specification: the GameCode under observation
    firstBoard,          \* board specification: what the first call for boardCode returned
    lastBoard,           \* board specification: what the latest call for boardCode returned
    boardCalls,          \* board specification: the GameCodes generateBoardFromSeed was called for
    GameState,           \* per client: the global GameState object
    games,               \* the rows of the remote table games, by game_code
    gameSubscription,    \* per client: the open change-notification channel
    subscriptionRetries, \* per client
    inbox,               \* per client: change notifications on their way to the channel callback
    pending,             \* upsert requests in flight
    redirectTimers,      \* per client: pending setTimeout(joinNewGame(newCode), 1000)
    backgroundSyncInterval, \* per client: whether the 5-second poll is installed
    localStorage,        \* per client: the browser's local storage
    screen,              \* per client: which of setup-modal, role-modal, game-area is shown
    now,                 \* the clock read by new Date() and Date.now()
    lastOp,              \* history: the handler that ran last, with its inputs
    channels,            \* per client: the channels opened and not removed
    awaiting,            \* per client: the calls suspended at await removeChannel
    retryTimers,         \* per client: pending setTimeout(setupSupabaseSubscription)
    channelsOpened       \* the number of channels opened so far

boardVars == <<wordList, boardCode, firstBoard, lastBoard, boardCalls>>

channelVars == <<channels, awaiting, retryTimers, channelsOpened>>

gameVars == <<GameState, games, gameSubscription, subscriptionRetries, inbox, pending,
              redirectTimers, backgroundSyncInterval, localStorage, screen, now, lastOp>>

vars == <<wordList, boardCode, firstBoard, lastBoard, boardCalls,
          GameState, games, gameSubscription, subscriptionRetries, inbox, pending,
          redirectTimers, backgroundSyncInterval, localStorage, screen, now, lastOp,
          channels, awaiting, retryTimers, channelsOpened>>

-----------------------------------------------------------------------------
(* Bounds *)

\* number of entries of the word list (the list itself is not in src/)
WordListLen == 27
\* longest GameCode the board specification generates boards for
MaxCodeLen == 6
\* number of generateBoardFromSeed calls the board specification makes
MaxBoardCalls == 3

-----------------------------------------------------------------------------
(* 32-bit integer arithmetic on <<hi, lo>> pairs.  The operations are       *)
(* functions, so that each argument is evaluated once.                     *)

W16 == 65536

Half == 0..(W16 - 1)

Word32 == Half \X Half

\* x ^ y and x | y, bit by bit
XorBits[p \in Nat, q \in Nat] ==
    IF p = 0 THEN q
    ELSE IF q = 0 THEN p
    ELSE ((p + q) % 2) + 2 * XorBits[p \div 2, q \div 2]

OrBits[p \in Nat, q \in Nat] ==
    IF p = 0 THEN q
    ELSE IF q = 0 THEN p
    ELSE (IF p % 2 = 1 \/ q % 2 = 1 THEN 1 ELSE 0) + 2 * OrBits[p \div 2, q \div 2]

\* a ^ b
Xor32[a \in Word32, b \in Word32] == <<XorBits[a[1], b[1]], XorBits[a[2], b[2]]>>

\* a | b
Or32[a \in Word32, b \in Word32] == <<OrBits[a[1], b[1]], OrBits[a[2], b[2]]>>

\* a >>> k, for 0 < k < 16
Shr32[a \in Word32, k \in 1..15] ==
    <<a[1] \div 2^k, (a[2] \div 2^k) + (a[1] % 2^k) * 2^(16 - k)>>

\* a << k, for 0 < k < 16
Shl32[a \in Word32, k \in 1..15] ==
    <<(a[1] * 2^k + a[2] \div 2^(16 - k)) % W16, (a[2] * 2^k) % W16>>

\* (a + b) wrapped to 32 bits
Add32[a \in Word32, b \in Word32] ==
    <<(a[1] + b[1] + (a[2] + b[2]) \div W16) % W16, (a[2] + b[2]) % W16>>

\* (a - b) wrapped to 32 bits
Sub32[a \in Word32, b \in Word32] ==
    <<(a[1] - b[1] - (IF a[2] < b[2] THEN 1 ELSE 0) + 2 * W16) % W16,
      (a[2] - b[2] + W16) % W16>>

\* the 32-bit product of two 16-bit numbers, as <<hi, lo>>, by bytes of p
Mul16[p \in Half, q \in Half] ==
    <<(((p \div 256) * q) \div 256
        + ((p % 256) * q + (((p \div 256) * q) % 256) * 256) \div W16) % W16,
      ((p % 256) * q + (((p \div 256) * q) % 256) * 256) % W16>>

\* Math.imul(a, b): the low 32 bits of the product
Imul32[a \in Word32, b \in Word32] ==
    <<(Mul16[a[2], b[2]][1] + Mul16[a[1], b[2]][2] + Mul16[a[2], b[1]][2]) % W16,
      Mul16[a[2], b[2]][2]>>

-----------------------------------------------------------------------------
(* SeededRandom *)

\* t = Math.imul(t ^ t >>> 15, t | 1)
Mix1[t \in Word32] == Imul32[Xor32[t, Shr32[t, 15]], Or32[t, <<0, 1>>]]

\* t ^= t + Math.imul(t ^ t >>> 7, t | 61)
Mix2[t \in Word32] ==
    Xor32[t, Add32[t, Imul32[Xor32[t, Shr32[t, 7]], Or32[t, <<0, 61>>]]]]

\* (t ^ t >>> 14) >>> 0
Mix3[t \in Word32] == Xor32[t, Shr32[t, 14]]

\* the rest of next() once this.seed += 0x6D2B79F5 has been done
NextOf[s \in Word32] == [seed |-> s, u |-> Mix3[Mix2[Mix1[s]]]]

\* rng.next(): the new seed and the 32-bit numerator u of the result u / 2^32
SeededRandom_next[seed \in Word32] == NextOf[Add32[seed, <<27947, 31221>>]]

RngResult == [seed : Word32, u : Word32]

\* Math.floor((u / 4294967296) * n), for 0 < n < 2^15
FloorScale(u, n) == (u[1] * n + (u[2] * n) \div W16) \div W16

\* (u / 4294967296) > 0.5
GreaterThanHalf(u) == u[1] > 32768 \/ (u[1] = 32768 /\ u[2] > 0)

\* the state of the loop of shuffle: the array, the rng seed and the 0-based
\* loop index i
ShuffleState == [result : Seq(STRING), seed : Word32, i : Int]

\* [result[i], result[j]] = [result[j], result[i]] with j drawn by n = next()
ShuffleSwap[st \in ShuffleState, n \in RngResult] ==
    [result |-> [st.result EXCEPT
                    ![st.i + 1] = st.result[FloorScale(n.u, st.i + 1) + 1],
                    ![FloorScale(n.u, st.i + 1) + 1] = st.result[st.i + 1]],
     seed   |-> n.seed,
     i      |-> st.i - 1]

\* for (let i = result.length - 1; i > 0; i--)
ShuffleLoop[st \in ShuffleState] ==
    IF st.i <= 0 THEN st
    ELSE ShuffleLoop[ShuffleSwap[st, SeededRandom_next[st.seed]]]

\* what shuffle returns with the loop ended in st: the shuffled copy, the new
\* seed, and the argument array as the call leaves it
ShuffleReturn[st \in ShuffleState, array \in Seq(STRING)] ==
    [result |-> st.result, seed |-> st.seed, array |-> array]

\* a shuffle that permutes its argument in place instead of a copy
SeededRandom_shuffleInPlace(array, seed) ==
    [result |-> ShuffleLoop[[result |-> array, seed |-> seed, i |-> Len(array) - 1]].result,
     seed   |-> seed,
     array  |-> ShuffleLoop[[result |-> array, seed |-> seed, i |-> Len(array) - 1]].result]

\* rng.shuffle(array); result = [...array] is a copy
SeededRandom_shuffle(array, seed) ==
    ShuffleReturn[ShuffleLoop[[result |-> array, seed |-> seed, i |-> Len(array) - 1]],
                  array]

-----------------------------------------------------------------------------
(* hashCode and the board generator *)

\* the loop of hashCode from character i on: hash = ((hash << 5) - hash) + char,
\* wrapped to 32 bits by hash & hash
HashLoop[str \in Seq(Nat), i \in Nat, hash \in Word32] ==
    IF i > Len(str) THEN hash
    ELSE HashLoop[str, i + 1, Add32[Sub32[Shl32[hash, 5], hash], <<0, str[i]>>]]

\* Math.abs of the signed 32-bit value h
Abs32[h \in Word32] == IF h[1] >= 32768 THEN Sub32[<<0, 0>>, h] ELSE h

\* hashCode(str)
hashCode(str) == Abs32[HashLoop[str, 1, <<0, 0>>]]

OtherTeam(team) == IF team = "red" THEN "blue" ELSE "red"

\* a role list with one starting-team card too few and one neutral too many
CardTypeListShort(startingTeam) ==
    [c \in 1..25 |-> IF c <= 8 THEN startingTeam
                     ELSE IF c <= 16 THEN OtherTeam(startingTeam)
                     ELSE IF c <= 24 THEN "neutral"
                     ELSE "assassin"]

\* the unshuffled role list for a starting team
CardTypeList(startingTeam) ==
    [c \in 1..25 |-> IF c <= 9 THEN startingTeam
                     ELSE IF c <= 17 THEN OtherTeam(startingTeam)
                     ELSE IF c <= 24 THEN "neutral"
                     ELSE "assassin"]

\* slice(0, 24)
Slice24(s) == SubSeq(s, 1, IF Len(s) < 24 THEN Len(s) ELSE 24)

\* slice(0, 25)
Slice25(s) == SubSeq(s, 1, IF Len(s) < 25 THEN Len(s) ELSE 25)

\* startingTeam = rng.next() > 0.5 ? 'red' : 'blue'
StartingTeamOf(n) == IF GreaterThanHalf(n.u) THEN "red" ELSE "blue"

ShuffleResult == [result : Seq(STRING), seed : Word32, array : Seq(STRING)]

\* generateBoardFromSeed after the words were shuffled (sw) and the starting
\* team was drawn (n = rng.next()); wordList is WORD_LIST as the call leaves it
BoardOfDraws[sw \in ShuffleResult, n \in RngResult] ==
    [words        |-> Slice25(sw.result),
     cardTypes    |-> SeededRandom_shuffle(CardTypeList(StartingTeamOf(n)), n.seed).result,
     startingTeam |-> StartingTeamOf(n),
     wordList     |-> sw.array]

\* generateBoardFromSeed after the words were shuffled
BoardOfWords[sw \in ShuffleResult] == BoardOfDraws[sw, SeededRandom_next[sw.seed]]

\* the body of generateBoardFromSeed(gameCode), list being the contents of
\* WORD_LIST it reads
generateBoard(gameCode, list) ==
    BoardOfWords[SeededRandom_shuffle(list, hashCode(gameCode))]

\* the canonical word list: WordListLen distinct words
WORD_LIST == [w \in 1..WordListLen |-> ToString(w)]

\* generateBoardFromSeed(gameCode), reading the global array
generateBoardFromSeed(gameCode) == generateBoard(gameCode, wordList)

-----------------------------------------------------------------------------
(* GameCodes *)

\* length of a generated GameCode
CodeLen == 6

\* the characters GameCodes are drawn from here: "A" and "Z"
CodeChars == {65, 90}

\* the GameCodes of the two games of the main specification: "AZAZAZ", "ZAZAZA"
CodeA == <<65, 90, 65, 90, 65, 90>>

CodeB == <<90, 65, 90, 65, 90, 65>>

BoardCodes == UNION {[1..n -> CodeChars] : n \in CodeLen..MaxCodeLen}

-----------------------------------------------------------------------------
(* Board specification: generateBoardFromSeed called again and again *)

NoBoard == [none |-> TRUE]

\* the game variables while only the board generator runs: no page is loaded
NoGame == <<>>

\* the channel variables where setupSupabaseSubscription is not followed
\* through its awaits
NoChannelCalls ==
    /\ channels = NoGame
    /\ awaiting = NoGame
    /\ retryTimers = NoGame
    /\ channelsOpened = 0

\* the module loaded with WORD_LIST one of lists; no board generated yet
BoardInitFrom(lists) ==
    /\ wordList \in lists
    /\ boardCode \in BoardCodes
    /\ firstBoard = NoBoard
    /\ lastBoard = NoBoard
    /\ boardCalls = <<>>
    /\ GameState = NoGame
    /\ games = NoGame
    /\ gameSubscription = NoGame
    /\ subscriptionRetries = NoGame
    /\ inbox = NoGame
    /\ pending = NoGame
    /\ redirectTimers = NoGame
    /\ backgroundSyncInterval = NoGame
    /\ localStorage = NoGame
    /\ screen = NoGame
    /\ now = 0
    /\ lastOp = NoGame
    /\ NoChannelCalls

BoardInit == BoardInitFrom({WORD_LIST})

\* what generateBoard yields
GeneratedBoard ==
    [words : Seq(STRING), cardTypes : Seq(STRING), startingTeam : STRING,
     wordList : Seq(STRING)]

\* what a call returns: { words, cardTypes: shuffledTypes, startingTeam }
BoardReturn[b \in GeneratedBoard] ==
    [words |-> b.words, cardTypes |-> b.cardTypes, startingTeam |-> b.startingTeam]

\* the state after a call for code that ended in b
BoardCalled[code \in Seq(Nat), b \in GeneratedBoard] ==
    [wordList   |-> b.wordList,
     lastBoard  |-> IF code = boardCode THEN BoardReturn[b] ELSE lastBoard,
     firstBoard |-> IF code = boardCode /\ firstBoard = NoBoard
                    THEN BoardReturn[b] ELSE firstBoard]

\* one call generateBoardFromSeed(code); the calls for boardCode are observed
GenerateBoard(code) ==
    /\ Len(boardCalls) < MaxBoardCalls
    /\ \E after \in {BoardCalled[code, generateBoardFromSeed(code)]} :
          /\ wordList' = after.wordList
          /\ lastBoard' = after.lastBoard
          /\ firstBoard' = after.firstBoard
    /\ boardCalls' = Append(boardCalls, code)
    /\ UNCHANGED <<boardCode, gameVars, channelVars>>

BoardNext == \E code \in {boardCode, CodeA} : GenerateBoard(code)

SpecBoard == BoardInit /\ [][BoardNext]_vars

\* number of cards of a role in a role list
CountRole(cardTypes, role) == Cardinality({i \in 1..Len(cardTypes) : cardTypes[i] = role})

\* C1: every generated board has exactly 25 card roles: 9 of the returned
\* startingTeam, 8 of the other team, 7 neutral and 1 assassin.
BoardRoleCounts ==
    lastBoard # NoBoard =>
        /\ Len(lastBoard.cardTypes) = 25
        /\ lastBoard.startingTeam \in {"red", "blue"}
        /\ CountRole(lastBoard.cardTypes, lastBoard.startingTeam) = 9
        /\ CountRole(lastBoard.cardTypes, OtherTeam(lastBoard.startingTeam)) = 8
        /\ CountRole(lastBoard.cardTypes, "neutral") = 7
        /\ CountRole(lastBoard.cardTypes, "assassin") = 1

\* a board whose starting team is blue has been generated
BoardRoleCountsWitness ==
    /\ lastBoard # NoBoard
    /\ lastBoard.startingTeam = "blue"
    /\ CountRole(lastBoard.cardTypes, "blue") = 9

\* C2: whatever was generated before, every call for a GameCode returns the
\* words, roles and starting team of the first call for it, and the shared
\* word list is as it was loaded.
BoardDeterministic ==
    /\ wordList = WORD_LIST
    /\ firstBoard # NoBoard => lastBoard = firstBoard

\* the observed GameCode was generated, then another one, then it again
BoardDeterministicWitness ==
    /\ boardCode # CodeA
    /\ boardCalls = <<boardCode, CodeA, boardCode>>
    /\ lastBoard = firstBoard

-----------------------------------------------------------------------------
(* The game: GameState and the operations on it *)

\* the browsers taking part, by their PLAYER_ID
PLAYER_IDS == {"player_1", "player_2"}

\* data-role of the role buttons, and the spectator button
Roles == {"red-spymaster", "red-operative", "blue-spymaster", "blue-operative", "spectator"}

\* null in a field that holds a char-code string
nullString == <<>>

\* null in a field that holds a team or a role
null == "null"

\* null in GameState.lastAction; the clock reads at least 1
nullTime == -1

\* the boards of the two games played, computed once each: generateBoardFromSeed
\* depends on the GameCode alone
BoardA == generateBoard(CodeA, WORD_LIST)

BoardB == generateBoard(CodeB, WORD_LIST)

BoardOf(gameCode) ==
    IF gameCode = CodeA THEN BoardA
    ELSE IF gameCode = CodeB THEN BoardB
    ELSE generateBoard(gameCode, WORD_LIST)

SeedA == hashCode(CodeA)

SeedB == hashCode(CodeB)

SeedOf(gameCode) ==
    IF gameCode = CodeA THEN SeedA
    ELSE IF gameCode = CodeB THEN SeedB
    ELSE hashCode(gameCode)

\* Array(25).fill(false)
NoneRevealed == [i \in 1..25 |-> FALSE]

\* the GameState object as the script creates it
InitialGameState ==
    [gameCode          |-> nullString,
     seed              |-> <<0, 0>>,
     words             |-> <<>>,
     cardTypes         |-> <<>>,
     startingTeam      |-> "red",
     revealed          |-> <<>>,
     currentTurn       |-> "red",
     redRemaining      |-> 9,
     blueRemaining     |-> 8,
     gameOver          |-> FALSE,
     winner            |-> null,
     currentClue       |-> nullString,
     currentClueNumber |-> 0,
     guessesRemaining  |-> 0,
     lastAction        |-> nullTime,
     playerRole        |-> null,
     clueHistory       |-> <<>>,
     players           |-> <<>>]

\* the assignments initializeGame makes before it touches the network
initializeGame(g, gameCode) ==
    [g EXCEPT !.gameCode          = gameCode,
              !.seed              = SeedOf(gameCode),
              !.words             = BoardOf(gameCode).words,
              !.cardTypes         = BoardOf(gameCode).cardTypes,
              !.startingTeam      = BoardOf(gameCode).startingTeam,
              !.revealed          = NoneRevealed,
              !.currentTurn       = BoardOf(gameCode).startingTeam,
              !.redRemaining      = IF BoardOf(gameCode).startingTeam = "red" THEN 9 ELSE 8,
              !.blueRemaining     = IF BoardOf(gameCode).startingTeam = "blue" THEN 9 ELSE 8,
              !.gameOver          = FALSE,
              !.winner            = null,
              !.currentClue       = nullString,
              !.currentClueNumber = 0,
              !.guessesRemaining  = 0,
              !.clueHistory       = <<>>]

\* getSyncableState() when new Date() reads t
getSyncableState(g, t) ==
    [game_code           |-> g.gameCode,
     revealed            |-> g.revealed,
     current_turn        |-> g.currentTurn,
     red_remaining       |-> g.redRemaining,
     blue_remaining      |-> g.blueRemaining,
     game_over           |-> g.gameOver,
     winner              |-> g.winner,
     current_clue        |-> g.currentClue,
     current_clue_number |-> g.currentClueNumber,
     guesses_remaining   |-> g.guessesRemaining,
     clue_history        |-> g.clueHistory,
     players             |-> g.players,
     last_action         |-> t]

\* x || d for a number column: d for null and for 0
FalsyOr(x, d) == IF x \notin Int \/ x = 0 THEN d ELSE x

\* a count read with || in place of ??
NullishOrFalsy(x, d) == IF x \notin Int \/ x = 0 THEN d ELSE x

\* x ?? d for a number column: d for null only
NullishOr(x, d) == IF x \notin Int THEN d ELSE x

\* an applySyncedState that takes the board of a payload that carries one
applySyncedStateWithBoard(g, data) ==
    [g EXCEPT !.revealed          = data.revealed,
              !.currentTurn       = IF data.current_turn = null THEN g.startingTeam
                                    ELSE data.current_turn,
              !.redRemaining      = NullishOr(data.red_remaining,
                                              IF g.startingTeam = "red" THEN 9 ELSE 8),
              !.blueRemaining     = NullishOr(data.blue_remaining,
                                              IF g.startingTeam = "blue" THEN 9 ELSE 8),
              !.gameOver          = (data.game_over \/ FALSE),
              !.winner            = data.winner,
              !.currentClue       = data.current_clue,
              !.currentClueNumber = FalsyOr(data.current_clue_number, 0),
              !.guessesRemaining  = FalsyOr(data.guesses_remaining, 0),
              !.clueHistory       = data.clue_history,
              !.players           = data.players,
              !.lastAction        = IF data.last_action = 0 THEN nullTime
                                    ELSE data.last_action,
              !.words             = IF "words" \in DOMAIN data THEN data.words ELSE @]

\* applySyncedState(data), data being a row of games, a notification payload
\* or an entry of the local cache; x || d yields d for the falsy x (null, 0,
\* false, the empty string), x ?? d for null only. An array or an object is
\* never falsy, and the null of winner and of current_clue is its own default
applySyncedState(g, data) ==
    [g EXCEPT !.revealed          = data.revealed,
              !.currentTurn       = IF data.current_turn = null THEN g.startingTeam
                                    ELSE data.current_turn,
              !.redRemaining      = NullishOr(data.red_remaining,
                                              IF g.startingTeam = "red" THEN 9 ELSE 8),
              !.blueRemaining     = NullishOr(data.blue_remaining,
                                              IF g.startingTeam = "blue" THEN 9 ELSE 8),
              !.gameOver          = (data.game_over \/ FALSE),
              !.winner            = data.winner,
              !.currentClue       = data.current_clue,
              !.currentClueNumber = FalsyOr(data.current_clue_number, 0),
              !.guessesRemaining  = FalsyOr(data.guesses_remaining, 0),
              !.clueHistory       = data.clue_history,
              !.players           = data.players,
              !.lastAction        = IF data.last_action = 0 THEN nullTime
                                    ELSE data.last_action]

\* new Date(lastAction).getTime(), 0 for null
TimeOf(lastAction) == IF lastAction = nullTime THEN 0 ELSE lastAction

\* newLastAction > currentLastAction
IsNewer(data, g) == data.last_action > TimeOf(g.lastAction)

\* a comparison that also takes a record of the same age
IsNewerOrSame(data, g) == data.last_action >= TimeOf(g.lastAction)

\* the test of the notification callback
NotificationIsNewer(data, g) == IsNewer(data, g)

\* an endTurn that leaves the number of the clue in place
endTurnKeepNumber(g) ==
    [g EXCEPT !.currentClue       = nullString,
              !.guessesRemaining  = 0,
              !.currentTurn       = OtherTeam(g.currentTurn)]

\* an endTurn that leaves the guesses of the clue in place
endTurnKeepGuesses(g) ==
    [g EXCEPT !.currentClue       = nullString,
              !.currentClueNumber = 0,
              !.currentTurn       = OtherTeam(g.currentTurn)]

\* endTurn() up to its saveGameState
endTurn(g) ==
    [g EXCEPT !.currentClue       = nullString,
              !.currentClueNumber = 0,
              !.guessesRemaining  = 0,
              !.currentTurn       = OtherTeam(g.currentTurn)]

\* the winner when the assassin is revealed: the team that did not reveal it
AssassinWinnerSame(g) == g.currentTurn

AssassinWinner(g) == OtherTeam(g.currentTurn)

\* the team whose remaining count is 0, red being tested first; null if none
CountWinnerOwnOnly(g) ==
    IF g.currentTurn = "red" /\ g.redRemaining = 0 THEN "red"
    ELSE IF g.currentTurn = "blue" /\ g.blueRemaining = 0 THEN "blue"
    ELSE null

CountWinner(g) ==
    IF g.redRemaining = 0 THEN "red"
    ELSE IF g.blueRemaining = 0 THEN "blue"
    ELSE null

\* a reveal that takes the card off the count of the team whose turn it is
RevealMarkOnTurn(g, index) ==
    [g EXCEPT !.revealed[index + 1] = TRUE,
              !.redRemaining  = IF g.currentTurn = "red" THEN @ - 1 ELSE @,
              !.blueRemaining = IF g.currentTurn = "blue" THEN @ - 1 ELSE @]

\* the first statements of revealCard: the card is marked and its team's count drops
RevealMark(g, index) ==
    [g EXCEPT !.revealed[index + 1] = TRUE,
              !.redRemaining  = IF g.cardTypes[index + 1] = "red" THEN @ - 1 ELSE @,
              !.blueRemaining = IF g.cardTypes[index + 1] = "blue" THEN @ - 1 ELSE @]

\* a count of guesses that takes two for one reveal
CountGuessTwice(g) == [g EXCEPT !.guessesRemaining = @ - 2]

\* guessesRemaining--
CountGuess(g) == [g EXCEPT !.guessesRemaining = @ - 1]

\* an if-else chain whose assassin branch sets gameOver and leaves winner alone
RevealOutcomeNoWinner(g, cardType) ==
    IF cardType = "assassin"
    THEN [g EXCEPT !.gameOver = TRUE]
    ELSE IF CountWinner(g) # null
    THEN [g EXCEPT !.gameOver = TRUE, !.winner = CountWinner(g)]
    ELSE IF cardType # g.currentTurn
    THEN endTurn(g)
    ELSE IF CountGuess(g).guessesRemaining = 0
    THEN endTurn(CountGuess(g))
    ELSE CountGuess(g)

\* the if-else chain of revealCard on the marked state g, up to saveGameState
RevealOutcome(g, cardType) ==
    IF cardType = "assassin"
    THEN [g EXCEPT !.gameOver = TRUE, !.winner = AssassinWinner(g)]
    ELSE IF CountWinner(g) # null
    THEN [g EXCEPT !.gameOver = TRUE, !.winner = CountWinner(g)]
    ELSE IF cardType # g.currentTurn
    THEN endTurn(g)
    ELSE IF CountGuess(g).guessesRemaining = 0
    THEN endTurn(CountGuess(g))
    ELSE CountGuess(g)

\* revealCard(index) up to its saveGameState
revealCard(g, index) == RevealOutcome(RevealMark(g, index), g.cardTypes[index + 1])

\* playerRole?.includes('operative'), playerRole?.includes('spymaster')
IsOperative(role) == role \in {"red-operative", "blue-operative"}

IsSpymaster(role) == role \in {"red-spymaster", "blue-spymaster"}

\* playerRole?.startsWith(team)
StartsWith(role, team) ==
    \/ team = "red" /\ role \in {"red-spymaster", "red-operative"}
    \/ team = "blue" /\ role \in {"blue-spymaster", "blue-operative"}

\* a handleCardClick that lets the operatives of both teams guess
ClickAcceptedAnyTeam(g, index) ==
    /\ ~g.revealed[index + 1]
    /\ ~g.gameOver
    /\ g.playerRole # "spectator"
    /\ IsOperative(g.playerRole)
    /\ g.currentClue # nullString

\* whether handleCardClick(index) gets as far as revealCard(index)
ClickAccepted(g, index) ==
    /\ ~g.revealed[index + 1]
    /\ ~g.gameOver
    /\ g.playerRole # "spectator"
    /\ IsOperative(g.playerRole)
    /\ StartsWith(g.playerRole, g.currentTurn)
    /\ g.currentClue # nullString

\* handleCardClick(index) up to saveGameState
handleCardClick(g, index) == IF ClickAccepted(g, index) THEN revealCard(g, index) ELSE g

\* String.prototype.trim, for words of letters and spaces (char code 32)
RECURSIVE TrimStart(_)
TrimStart(str) ==
    IF str # <<>> /\ Head(str) = 32 THEN TrimStart(Tail(str)) ELSE str

RECURSIVE TrimEnd(_)
TrimEnd(str) ==
    IF str # <<>> /\ str[Len(str)] = 32 THEN TrimEnd(SubSeq(str, 1, Len(str) - 1)) ELSE str

Trim(str) == TrimEnd(TrimStart(str))

\* String.prototype.toUpperCase, for words of ASCII letters and spaces
ToUpperCase(str) ==
    [i \in 1..Len(str) |-> IF str[i] \in 97..122 THEN str[i] - 32 ELSE str[i]]

\* a check of the clue word that only turns an empty word down
ClueAcceptedAnyTokens(word) == Trim(word) # <<>>

\* whether giveClue(word, number) passes its two checks
ClueAccepted(word) ==
    /\ Trim(word) # <<>>
    /\ \A i \in 1..Len(Trim(word)) : Trim(word)[i] # 32

\* a giveClue without the unlimited sentinel for a clue of 0
giveClueNoSentinel(g, word, number, t) ==
    IF ~ClueAccepted(word) THEN g
    ELSE [g EXCEPT !.currentClue       = Trim(ToUpperCase(word)),
                   !.currentClueNumber = number,
                   !.guessesRemaining  = number + 1,
                   !.clueHistory       = Append(@, [id           |-> t,
                                                    team         |-> g.currentTurn,
                                                    word         |-> Trim(ToUpperCase(word)),
                                                    number       |-> number,
                                                    stillApplies |-> TRUE])]

\* giveClue(word, number) up to saveGameState, Date.now() reading t
giveClue(g, word, number, t) ==
    IF ~ClueAccepted(word) THEN g
    ELSE [g EXCEPT !.currentClue       = Trim(ToUpperCase(word)),
                   !.currentClueNumber = number,
                   !.guessesRemaining  = IF number = 0 THEN 99 ELSE number + 1,
                   !.clueHistory       = Append(@, [id           |-> t,
                                                    team         |-> g.currentTurn,
                                                    word         |-> Trim(ToUpperCase(word)),
                                                    number       |-> number,
                                                    stillApplies |-> TRUE])]

\* a toggle that only ever crosses a clue out
toggleClueOff(g, index) ==
    IF index >= 0 /\ index < Len(g.clueHistory)
    THEN [g EXCEPT !.clueHistory[index + 1].stillApplies = FALSE]
    ELSE g

\* toggleClueApplies(index) up to saveGameState
toggleClueApplies(g, index) ==
    IF index >= 0 /\ index < Len(g.clueHistory)
    THEN [g EXCEPT !.clueHistory[index + 1].stillApplies = ~@]
    ELSE g

\* what updateGameDisplay leaves on the page: the cards with a click listener
\* (renderBoard), whether the clue form is shown (updateClueSection), whether
\* the end-turn button is enabled (updateEndTurnButton), the number of clue
\* toggles (updateClueHistory) and whether the game-over modal is shown
updateGameDisplay(g) ==
    [cards         |-> {i \in 0..24 : ~g.revealed[i + 1] /\ ~IsSpymaster(g.playerRole)
                                       /\ ~g.gameOver},
     clueSection   |-> /\ g.playerRole # null
                       /\ IsSpymaster(g.playerRole)
                       /\ StartsWith(g.playerRole, g.currentTurn)
                       /\ g.currentClue = nullString
                       /\ ~g.gameOver,
     endTurnBtn    |-> /\ IsOperative(g.playerRole)
                       /\ StartsWith(g.playerRole, g.currentTurn)
                       /\ g.currentClue # nullString
                       /\ ~g.gameOver,
     toggles       |-> IF IsOperative(g.playerRole) \/ IsSpymaster(g.playerRole)
                       THEN Len(g.clueHistory) ELSE 0,
     gameOverModal |-> g.gameOver /\ g.winner # null]

\* updateClueHistory alone
updateClueHistory(d, g) ==
    [d EXCEPT !.toggles = IF IsOperative(g.playerRole) \/ IsSpymaster(g.playerRole)
                          THEN Len(g.clueHistory) ELSE 0]

-----------------------------------------------------------------------------
(* The remote table, and the games in progress when the pages are loaded *)

\* the GameCodes in play: the game the pages are opened on, and the code
\* generateGameCode draws for a new game
GameCodes == {CodeA, CodeB}

\* no row for a game_code
NoRow == [game_code |-> nullString]

\* a row of games: the columns an upsert sets, and new_game_redirect
RowOf(syncState, redirect) ==
    [game_code           |-> syncState.game_code,
     revealed            |-> syncState.revealed,
     current_turn        |-> syncState.current_turn,
     red_remaining       |-> syncState.red_remaining,
     blue_remaining      |-> syncState.blue_remaining,
     game_over           |-> syncState.game_over,
     winner              |-> syncState.winner,
     current_clue        |-> syncState.current_clue,
     current_clue_number |-> syncState.current_clue_number,
     guesses_remaining   |-> syncState.guesses_remaining,
     clue_history        |-> syncState.clue_history,
     players             |-> syncState.players,
     last_action         |-> syncState.last_action,
     new_game_redirect   |-> redirect]

\* upsert(syncState, { onConflict: 'game_code' }) on the row it meets
Upsert(row, syncState) ==
    RowOf(syncState, IF row = NoRow THEN nullString ELSE row.new_game_redirect)

\* update({ new_game_redirect, last_action }).eq('game_code', oldGameCode)
UpdateRedirect(row, newGameCode, t) ==
    [row EXCEPT !.new_game_redirect = newGameCode, !.last_action = t]

\* the 0-based indexes of the cards of a role on the board of CodeA, in order
RECURSIVE CardsFrom(_, _)
CardsFrom(role, i) ==
    IF i > 24 THEN <<>>
    ELSE IF BoardA.cardTypes[i + 1] = role THEN <<i>> \o CardsFrom(role, i + 1)
    ELSE CardsFrom(role, i + 1)

CardsOf(role) == CardsFrom(role, 0)

RedCards == CardsOf("red")

BlueCards == CardsOf("blue")

NeutralCards == CardsOf("neutral")

AssassinCard == CardsOf("assassin")[1]

\* the words typed into the clue form: "tree", " tree ", "two words", " ", ""
ClueWords ==
    {<<116, 114, 101, 101>>, <<32, 116, 114, 101, 101, 32>>,
     <<116, 119, 111, 32, 119, 111, 114, 100, 115>>, <<32>>, <<>>}

\* the options of the clue-number select offered here
ClueNumbers == {0, 1}

\* the clock when the pages are loaded
StartTime == 2

\* a game played before the pages are loaded: the handlers applied in turn
RECURSIVE Play(_, _)
Play(g, moves) ==
    IF moves = <<>> THEN g
    ELSE Play(CASE Head(moves).op = "clue"   -> giveClue(g, <<116, 114, 101, 101>>, Head(moves).arg, 1)
                [] Head(moves).op = "reveal" -> revealCard(g, Head(moves).arg)
                [] Head(moves).op = "end"    -> endTurn(g),
              Tail(moves))

Clue(number) == [op |-> "clue", arg |-> number]

Reveal(index) == [op |-> "reveal", arg |-> index]

EndTurnMove == [op |-> "end", arg |-> 0]

\* all cards of a list but the last are revealed
AllButLast(cards) == [k \in 1..(Len(cards) - 1) |-> Reveal(cards[k])]

\* the starting team has given its first clue
EarlyGame(number) == Play(initializeGame(InitialGameState, CodeA), <<Clue(number)>>)

\* each team has one card left and the team to move has been given a clue
LateGame(team, number) ==
    Play(initializeGame(InitialGameState, CodeA),
         <<Clue(0)>> \o AllButLast(CardsOf(BoardA.startingTeam)) \o <<EndTurnMove>>
         \o <<Clue(0)>> \o AllButLast(CardsOf(OtherTeam(BoardA.startingTeam)))
         \o <<EndTurnMove>>
         \o (IF team = BoardA.startingTeam THEN <<>> ELSE <<Clue(1), EndTurnMove>>)
         \o <<Clue(number)>>)

\* the states of the game of CodeA the remote table may hold at the start
SavedGames ==
    {EarlyGame(1), LateGame("red", 0), LateGame("blue", 1), endTurn(LateGame("red", 0))}

\* the roles the browsers have in their local storage at the start; null for
\* a browser that opens the game link for the first time
SavedRoles ==
    {[player_1 |-> "red-operative", player_2 |-> "blue-spymaster"],
     [player_1 |-> "blue-operative", player_2 |-> "red-operative"],
     [player_1 |-> "red-operative", player_2 |-> null]}

\* the players column of the game in progress: the roles chosen so far
SavedPlayers(roles) ==
    IF roles.player_2 = null
    THEN [c \in {"player_1"} |-> roles[c]]
    ELSE roles

-----------------------------------------------------------------------------
(* The clients and the synchronizer *)

\* the latest reading of the clock at which a handler may still start
MaxTime == 4

\* upsert and redirect requests in flight at a time
MaxPending == 2

\* notifications on their way to one client at a time; one more is lost
MaxInbox == 1

\* maxRetries of saveGameState
maxRetries == 3

\* the cards clicked here: the first red card, each team's last card, a
\* neutral card and the assassin
CardInputs ==
    {RedCards[1], RedCards[Len(RedCards)], BlueCards[Len(BlueCards)], NeutralCards[1],
     AssassinCard}

\* the role buttons clicked here
RoleInputs == {"red-operative", "blue-spymaster", "spectator"}

\* the clues of the history toggled here
ToggleInputs == {0}

\* no channel
NoChannel == [code |-> nullString, status |-> "CLOSED"]

\* what saveGameState writes under codenames_<gameCode>
CacheEntry(syncState, playerRole) == [syncState |-> syncState, playerRole |-> playerRole]

\* the page before updateGameDisplay has run
NoDisplay ==
    [cards |-> {}, clueSection |-> FALSE, endTurnBtn |-> FALSE, toggles |-> 0,
     gameOverModal |-> FALSE]

\* init() on a page opened with ?game=<CodeA>: initializeGame adopts the row;
\* a saved role is restored and startGame adopts the row again, without one
\* the role modal is shown
LoadedGame(saved, role, players) ==
    [applySyncedState(initializeGame(InitialGameState, CodeA),
                      RowOf(getSyncableState([saved EXCEPT !.players = players], 1),
                            nullString))
        EXCEPT !.playerRole = role]

\* the record of the handler that ran last: its name, the client it ran on
\* and the card index or the payload's last_action it was given; kept for
\* card clicks and notifications
Op(name, c, arg) ==
    IF name \in {"handleCardClick", "notification"}
    THEN [op |-> name, player |-> c, arg |-> arg]
    ELSE [op |-> "", player |-> "", arg |-> 0]

\* the pages of the two clients once init() has run on each, the row being one
\* of savedGames with the roles one of savedRoles
InitFrom(savedGames, savedRoles) ==
    /\ wordList = WORD_LIST
    /\ boardCode = CodeA
    /\ firstBoard = NoBoard
    /\ lastBoard = NoBoard
    /\ boardCalls = <<>>
    /\ \E saved \in savedGames, roles \in savedRoles :
          /\ games = [code \in GameCodes |->
                        IF code = CodeA
                        THEN RowOf(getSyncableState(
                                       [saved EXCEPT !.players = SavedPlayers(roles)], 1),
                                   nullString)
                        ELSE NoRow]
          /\ GameState = [c \in PLAYER_IDS |->
                            LoadedGame(saved, roles[c], SavedPlayers(roles))]
          /\ backgroundSyncInterval = [c \in PLAYER_IDS |-> roles[c] # null]
          /\ localStorage =
                [c \in PLAYER_IDS |->
                    [state |-> [code \in GameCodes |-> NoRow],
                     role  |-> [code \in GameCodes |->
                                  IF code = CodeA THEN roles[c] ELSE null]]]
    /\ gameSubscription = [c \in PLAYER_IDS |-> [code |-> CodeA, status |-> "joining"]]
    /\ subscriptionRetries = [c \in PLAYER_IDS |-> 0]
    /\ inbox = [c \in PLAYER_IDS |-> <<>>]
    /\ pending = {}
    /\ redirectTimers = [c \in PLAYER_IDS |-> {}]
    /\ screen = [c \in PLAYER_IDS |->
                    IF GameState[c].playerRole # null
                    THEN [shown |-> "game-area", display |-> updateGameDisplay(GameState[c])]
                    ELSE [shown |-> "role-modal", display |-> NoDisplay]]
    /\ now = StartTime
    /\ lastOp = Op("init", "", 0)
    /\ NoChannelCalls

Init == InitFrom(SavedGames, SavedRoles)

\* the change notifications a write of row brings about: one for every client
\* whose channel is subscribed to the row's game_code
Notified(row) ==
    [c \in PLAYER_IDS |->
        IF /\ gameSubscription[c].code = row.game_code
           /\ gameSubscription[c].status = "SUBSCRIBED"
           /\ Len(inbox[c]) < MaxInbox
        THEN Append(inbox[c], row)
        ELSE inbox[c]]

\* setupSupabaseSubscription() with the GameCode in g: the old channel is
\* removed and a new one is opened, which has yet to reach SUBSCRIBED
setupSupabaseSubscription(g) == [code |-> g.gameCode, status |-> "joining"]

\* the request of one supabaseClient...upsert(syncState) call
UpsertRequest(c, g, t, retryCount, then, oldCode, newCode) ==
    [kind       |-> "upsert",
     player     |-> c,
     syncState  |-> getSyncableState(g, t),
     retryCount |-> retryCount,
     then       |-> then,
     oldCode    |-> oldCode,
     newCode    |-> newCode]

\* a save that writes the local cache and makes no upsert
saveGameStateLocally(c, g, then, oldCode, storage) ==
    /\ now < MaxTime
    /\ GameState' = [GameState EXCEPT ![c] = g]
    /\ localStorage' = [storage EXCEPT
                           ![c].state[g.gameCode] =
                               CacheEntry(getSyncableState(g, now), g.playerRole)]
    /\ pending' = pending
    /\ now' = now + 1

\* saveGameState() of client c up to the await of the upsert, GameState[c]
\* having become g; then names what the caller does once the save is over
\* and storage is the local storage as the caller leaves it
saveGameState(c, g, then, oldCode, storage) ==
    /\ now < MaxTime
    /\ Cardinality(pending) < MaxPending
    /\ GameState' = [GameState EXCEPT ![c] = g]
    /\ localStorage' = [storage EXCEPT
                           ![c].state[g.gameCode] =
                               CacheEntry(getSyncableState(g, now), g.playerRole)]
    /\ pending' = pending \cup {UpsertRequest(c, g, now, 0, then, oldCode, g.gameCode)}
    /\ now' = now + 1

\* select('*').eq('game_code', gameCode).maybeSingle()
Fetch(gameCode) == games[gameCode]

\* applySyncedState(data) and updateGameDisplay() on client c if adopt holds
Adopt(c, adopt, data) ==
    /\ GameState' = IF adopt
                    THEN [GameState EXCEPT ![c] = applySyncedState(GameState[c], data)]
                    ELSE GameState
    /\ screen' = IF adopt
                 THEN [screen EXCEPT ![c].display =
                          updateGameDisplay(applySyncedState(GameState[c], data))]
                 ELSE screen

\* a click on a card that has a click listener: handleCardClick(index)
CardClick(c, index) ==
    /\ screen[c].shown = "game-area"
    /\ index \in screen[c].display.cards
    /\ IF ClickAccepted(GameState[c], index)
       THEN saveGameState(c, handleCardClick(GameState[c], index), "updateGameDisplay",
                          nullString, localStorage)
       ELSE UNCHANGED <<GameState, localStorage, pending, now>>
    /\ lastOp' = IF ClickAccepted(GameState[c], index)
                 THEN Op("handleCardClick", c, index) ELSE lastOp
    /\ UNCHANGED <<games, gameSubscription, subscriptionRetries, inbox, redirectTimers,
                   backgroundSyncInterval, screen, boardVars, channelVars>>

\* a click on give-clue-btn while the clue form is shown
GiveClueClick(c, word, number) ==
    /\ screen[c].shown = "game-area"
    /\ screen[c].display.clueSection
    /\ IF ClueAccepted(word)
       THEN saveGameState(c, giveClue(GameState[c], word, number, now),
                          "updateGameDisplay", nullString, localStorage)
       ELSE UNCHANGED <<GameState, localStorage, pending, now>>
    /\ lastOp' = IF ClueAccepted(word) THEN Op("giveClue", c, number) ELSE lastOp
    /\ UNCHANGED <<games, gameSubscription, subscriptionRetries, inbox, redirectTimers,
                   backgroundSyncInterval, screen, boardVars, channelVars>>

\* a click on end-turn-btn while it is enabled
EndTurnClick(c) ==
    /\ screen[c].shown = "game-area"
    /\ screen[c].display.endTurnBtn
    /\ saveGameState(c, endTurn(GameState[c]), "updateGameDisplay", nullString,
                     localStorage)
    /\ lastOp' = Op("endTurn", c, 0)
    /\ UNCHANGED <<games, gameSubscription, subscriptionRetries, inbox, redirectTimers,
                   backgroundSyncInterval, screen, boardVars, channelVars>>

\* a change of the still-applies toggle of a clue shown in the history
ToggleClick(c, index) ==
    /\ screen[c].shown = "game-area"
    /\ index < screen[c].display.toggles
    /\ IF index >= 0 /\ index < Len(GameState[c].clueHistory)
       THEN saveGameState(c, toggleClueApplies(GameState[c], index), "updateClueHistory",
                          nullString, localStorage)
       ELSE UNCHANGED <<GameState, localStorage, pending, now>>
    /\ lastOp' = IF index >= 0 /\ index < Len(GameState[c].clueHistory)
                 THEN Op("toggleClueApplies", c, index) ELSE lastOp
    /\ UNCHANGED <<games, gameSubscription, subscriptionRetries, inbox, redirectTimers,
                   backgroundSyncInterval, screen, boardVars, channelVars>>

\* a click on a role button or the spectator button in the role modal
SelectRole(c, role) ==
    /\ screen[c].shown = "role-modal"
    /\ saveGameState(c, [GameState[c] EXCEPT !.playerRole = role,
                                             !.players = (c :> role) @@ @],
                     "startGame", nullString,
                     [localStorage EXCEPT ![c].role[GameState[c].gameCode] = role])
    /\ lastOp' = Op("selectRole", c, 0)
    /\ UNCHANGED <<games, gameSubscription, subscriptionRetries, inbox, redirectTimers,
                   backgroundSyncInterval, screen, boardVars, channelVars>>

\* the end of initializeGame: a role saved for the game is restored
RestoreRole(g, savedRole) ==
    IF savedRole # null THEN [g EXCEPT !.playerRole = savedRole] ELSE g

\* a confirmed click on new-game-from-board: the channel is removed, the new
\* game is initialized (isNewGame = true) and saved; the broadcast follows the save
NewGameFromBoard(c, newCode) ==
    /\ screen[c].shown = "game-area"
    /\ games[newCode] = NoRow
    /\ \A d \in PLAYER_IDS : GameState[d].gameCode # newCode
    /\ saveGameState(c, RestoreRole(initializeGame(GameState[c], newCode),
                                    localStorage[c].role[newCode]),
                     "broadcastNewGame", GameState[c].gameCode, localStorage)
    /\ gameSubscription' = [gameSubscription EXCEPT
                               ![c] = setupSupabaseSubscription(
                                          initializeGame(GameState[c], newCode))]
    /\ inbox' = [inbox EXCEPT ![c] = <<>>]
    /\ lastOp' = Op("newGameFromBoard", c, 0)
    /\ UNCHANGED <<games, subscriptionRetries, redirectTimers, backgroundSyncInterval,
                   screen, boardVars, channelVars>>

\* a click on refresh-btn: manualSync()
ManualSync(c) ==
    /\ screen[c].shown = "game-area"
    /\ subscriptionRetries' = [subscriptionRetries EXCEPT ![c] = 0]
    /\ gameSubscription' = [gameSubscription EXCEPT
                               ![c] = setupSupabaseSubscription(GameState[c])]
    /\ inbox' = [inbox EXCEPT ![c] = <<>>]
    /\ Adopt(c, Fetch(GameState[c].gameCode) # NoRow, Fetch(GameState[c].gameCode))
    /\ lastOp' = Op("manualSync", c, 0)
    /\ UNCHANGED <<games, pending, redirectTimers, backgroundSyncInterval, localStorage,
                   now, boardVars, channelVars>>

\* syncLatestState(), and the body of the other fetch-and-compare paths
syncLatestState(c) ==
    Adopt(c, /\ Fetch(GameState[c].gameCode) # NoRow
             /\ IsNewer(Fetch(GameState[c].gameCode), GameState[c]),
          Fetch(GameState[c].gameCode))

\* a tick of the interval of startBackgroundSync
BackgroundSync(c) ==
    /\ backgroundSyncInterval[c]
    /\ GameState[c].gameCode # nullString
    /\ ~GameState[c].gameOver
    /\ syncLatestState(c)
    /\ lastOp' = IF /\ Fetch(GameState[c].gameCode) # NoRow
                    /\ IsNewer(Fetch(GameState[c].gameCode), GameState[c])
                 THEN Op("backgroundSync", c, 0) ELSE lastOp
    /\ UNCHANGED <<games, gameSubscription, subscriptionRetries, inbox, pending,
                   redirectTimers, backgroundSyncInterval, localStorage, now, boardVars, channelVars>>

\* visibilitychange to visible
VisibilityChange(c) ==
    /\ GameState[c].gameCode # nullString
    /\ ~GameState[c].gameOver
    /\ syncLatestState(c)
    /\ lastOp' = IF /\ Fetch(GameState[c].gameCode) # NoRow
                    /\ IsNewer(Fetch(GameState[c].gameCode), GameState[c])
                 THEN Op("visibilitychange", c, 0) ELSE lastOp
    /\ UNCHANGED <<games, gameSubscription, subscriptionRetries, inbox, pending,
                   redirectTimers, backgroundSyncInterval, localStorage, now, boardVars, channelVars>>

\* the online event: the subscription is set up again, then syncLatestState()
Online(c) ==
    /\ GameState[c].gameCode # nullString
    /\ subscriptionRetries' = [subscriptionRetries EXCEPT ![c] = 0]
    /\ gameSubscription' = [gameSubscription EXCEPT
                               ![c] = setupSupabaseSubscription(GameState[c])]
    /\ inbox' = [inbox EXCEPT ![c] = <<>>]
    /\ syncLatestState(c)
    /\ lastOp' = Op("online", c, 0)
    /\ UNCHANGED <<games, pending, redirectTimers, backgroundSyncInterval, localStorage,
                   now, boardVars, channelVars>>

\* the subscribe callback with status SUBSCRIBED: the latest row is fetched
Subscribed(c) ==
    /\ gameSubscription[c].status = "joining"
    /\ gameSubscription' = [gameSubscription EXCEPT ![c].status = "SUBSCRIBED"]
    /\ subscriptionRetries' = [subscriptionRetries EXCEPT ![c] = 0]
    /\ syncLatestState(c)
    /\ lastOp' = Op("SUBSCRIBED", c, 0)
    /\ UNCHANGED <<games, inbox, pending, redirectTimers, backgroundSyncInterval,
                   localStorage, now, boardVars, channelVars>>

\* the postgres_changes callback on the payload at the head of the inbox
Notification(c) ==
    /\ inbox[c] # <<>>
    /\ inbox' = [inbox EXCEPT ![c] = Tail(@)]
    /\ IF Head(inbox[c]).new_game_redirect # nullString
       THEN /\ redirectTimers' = [redirectTimers EXCEPT
                                     ![c] = @ \cup {Head(inbox[c]).new_game_redirect}]
            /\ UNCHANGED <<GameState, screen>>
       ELSE /\ Adopt(c, NotificationIsNewer(Head(inbox[c]), GameState[c]), Head(inbox[c]))
            /\ UNCHANGED redirectTimers
    /\ lastOp' = Op("notification", c, Head(inbox[c]).last_action)
    /\ UNCHANGED <<games, gameSubscription, subscriptionRetries, pending,
                   backgroundSyncInterval, localStorage, now, boardVars, channelVars>>

\* localStorage.removeItem of the two keys of a game
RemoveGame(storage, gameCode) ==
    [storage EXCEPT !.state[gameCode] = NoRow, !.role[gameCode] = null]

\* the GameState joinNewGame(newCode) leaves, storage being the local storage
\* after the old game's keys were removed: initializeGame(newCode, false)
\* adopts the row if there is one and restores a saved role, then the row is
\* fetched and adopted once more
JoinedGame(g, newCode, storage) ==
    IF Fetch(newCode) = NoRow
    THEN RestoreRole(initializeGame(g, newCode), storage.role[newCode])
    ELSE applySyncedState(
             RestoreRole(applySyncedState(initializeGame(g, newCode), Fetch(newCode)),
                         storage.role[newCode]),
             Fetch(newCode))

\* the timer set by a redirect notification fires: joinNewGame(newCode)
JoinNewGame(c, newCode) ==
    /\ newCode \in redirectTimers[c]
    /\ redirectTimers' = [redirectTimers EXCEPT ![c] = @ \ {newCode}]
    /\ backgroundSyncInterval' = [backgroundSyncInterval EXCEPT ![c] = FALSE]
    /\ localStorage' = [localStorage EXCEPT ![c] = RemoveGame(@, GameState[c].gameCode)]
    /\ subscriptionRetries' = [subscriptionRetries EXCEPT ![c] = 0]
    /\ GameState' = [GameState EXCEPT
                        ![c] = JoinedGame(@, newCode,
                                          RemoveGame(localStorage[c], GameState[c].gameCode))]
    /\ gameSubscription' = [gameSubscription EXCEPT
                               ![c] = [code |-> newCode, status |-> "joining"]]
    /\ inbox' = [inbox EXCEPT ![c] = <<>>]
    /\ screen' = [screen EXCEPT ![c].shown = "role-modal"]
    /\ lastOp' = Op("joinNewGame", c, 0)
    /\ UNCHANGED <<games, pending, now, boardVars, channelVars>>

\* what the caller of saveGameState does on client c once the save is over,
\* table being the remote table by then: updateGameDisplay(),
\* updateClueHistory(), startGame(), or the start of broadcastNewGame
AfterSave(c, req, table) ==
    /\ GameState' =
          IF req.then = "startGame" /\ table[GameState[c].gameCode] # NoRow
          THEN [GameState EXCEPT
                   ![c] = applySyncedState(@, table[GameState[c].gameCode])]
          ELSE GameState
    /\ screen' =
          [screen EXCEPT
              ![c] = CASE req.then = "updateGameDisplay" ->
                            [@ EXCEPT !.display = updateGameDisplay(GameState[c])]
                       [] req.then = "updateClueHistory" ->
                            [@ EXCEPT !.display = updateClueHistory(@, GameState[c])]
                       [] req.then = "startGame" ->
                            [shown   |-> "game-area",
                             display |-> updateGameDisplay(
                                 IF table[GameState[c].gameCode] # NoRow
                                 THEN applySyncedState(GameState[c],
                                                       table[GameState[c].gameCode])
                                 ELSE GameState[c])]
                       [] OTHER -> @]
    /\ backgroundSyncInterval' =
          IF req.then = "startGame"
          THEN [backgroundSyncInterval EXCEPT ![c] = TRUE]
          ELSE backgroundSyncInterval
    /\ pending' =
          IF req.then = "broadcastNewGame"
          THEN (pending \ {req}) \cup {[kind    |-> "broadcast",
                                        player  |-> c,
                                        oldCode |-> req.oldCode,
                                        newCode |-> req.newCode]}
          ELSE pending \ {req}

\* an upsert succeeds: the row is written, the subscribers are notified and
\* the caller of saveGameState goes on
UpsertOk(req) ==
    /\ req \in pending
    /\ req.kind = "upsert"
    /\ games' = [games EXCEPT ![req.syncState.game_code] = Upsert(@, req.syncState)]
    /\ inbox' = Notified(Upsert(games[req.syncState.game_code], req.syncState))
    /\ AfterSave(req.player, req,
                 [games EXCEPT ![req.syncState.game_code] = Upsert(@, req.syncState)])
    /\ lastOp' = Op("upsertOk", req.player, 0)
    /\ UNCHANGED <<gameSubscription, subscriptionRetries, redirectTimers, localStorage,
                   now, boardVars, channelVars>>

\* if (retryCount < maxRetries) with the bound raised by one
RetriesOnceMore(retryCount) == retryCount <= maxRetries

\* if (retryCount < maxRetries), in both the error branch and the catch block
Retries(retryCount) == retryCount < maxRetries

\* an upsert fails (error result or exception): saveGameState(retryCount + 1)
\* takes a fresh getSyncableState(), or gives up after maxRetries retries
UpsertFailure(req, limit) ==
    /\ req \in pending
    /\ req.kind = "upsert"
    /\ IF Retries(req.retryCount)
       THEN /\ now < limit
            /\ pending' = (pending \ {req}) \cup
                              {UpsertRequest(req.player, GameState[req.player], now,
                                             req.retryCount + 1, req.then, req.oldCode,
                                             req.newCode)}
            /\ localStorage' =
                  [localStorage EXCEPT
                      ![req.player].state[GameState[req.player].gameCode] =
                          CacheEntry(getSyncableState(GameState[req.player], now),
                                     GameState[req.player].playerRole)]
            /\ now' = now + 1
            /\ UNCHANGED <<GameState, screen, backgroundSyncInterval>>
       ELSE /\ AfterSave(req.player, req, games)
            /\ UNCHANGED <<localStorage, now>>
    /\ UNCHANGED <<games, gameSubscription, subscriptionRetries, inbox, redirectTimers,
                   boardVars, channelVars>>

\* the failure of an upsert while the clock reads less than limit
UpsertErrorBefore(req, limit) ==
    /\ UpsertFailure(req, limit)
    /\ lastOp' = Op("upsertError", req.player, 0)

UpsertError(req) == UpsertErrorBefore(req, MaxTime)

\* broadcastNewGame(oldCode, newCode): the old game's row, if there is one,
\* gets the redirect and a new last_action; then the handler removes the old
\* game's keys and shows the role modal
BroadcastNewGame(req) ==
    /\ req \in pending
    /\ req.kind = "broadcast"
    /\ pending' = pending \ {req}
    /\ IF games[req.oldCode] # NoRow
       THEN /\ now < MaxTime
            /\ games' = [games EXCEPT
                            ![req.oldCode] = UpdateRedirect(@, req.newCode, now)]
            /\ inbox' = Notified(UpdateRedirect(games[req.oldCode], req.newCode, now))
            /\ now' = now + 1
       ELSE UNCHANGED <<games, inbox, now>>
    /\ localStorage' = [localStorage EXCEPT ![req.player] = RemoveGame(@, req.oldCode)]
    /\ screen' = [screen EXCEPT ![req.player].shown = "role-modal"]
    /\ lastOp' = Op("broadcastNewGame", req.player, 0)
    /\ UNCHANGED <<GameState, gameSubscription, subscriptionRetries, redirectTimers,
                   backgroundSyncInterval, boardVars, channelVars>>

Next ==
    \/ \E c \in PLAYER_IDS, index \in CardInputs : CardClick(c, index)
    \/ \E c \in PLAYER_IDS, word \in ClueWords, number \in ClueNumbers :
          GiveClueClick(c, word, number)
    \/ \E c \in PLAYER_IDS : EndTurnClick(c)
    \/ \E c \in PLAYER_IDS, index \in ToggleInputs : ToggleClick(c, index)
    \/ \E c \in PLAYER_IDS, role \in RoleInputs : SelectRole(c, role)
    \/ \E c \in PLAYER_IDS, newCode \in GameCodes : NewGameFromBoard(c, newCode)
    \/ \E c \in PLAYER_IDS : ManualSync(c)
    \/ \E c \in PLAYER_IDS : BackgroundSync(c)
    \/ \E c \in PLAYER_IDS : VisibilityChange(c)
    \/ \E c \in PLAYER_IDS : Online(c)
    \/ \E c \in PLAYER_IDS : Subscribed(c)
    \/ \E c \in PLAYER_IDS : Notification(c)
    \/ \E c \in PLAYER_IDS, newCode \in GameCodes : JoinNewGame(c, newCode)
    \/ \E req \in pending : UpsertOk(req)
    \/ \E req \in pending : UpsertError(req)
    \/ \E req \in pending : BroadcastNewGame(req)

Spec == Init /\ [][Next]_vars

-----------------------------------------------------------------------------
(* Properties of the synchronizer *)

\* the step is a step of client c on one and the same game
SameGame(c) == GameState'[c].gameCode = GameState[c].gameCode

\* C3: on any client, for a fixed GameCode, a card that is revealed stays
\* revealed in every later state, whatever local actions, notifications,
\* polls, reconnect fetches and manual syncs are interleaved.
RevealMonotonic ==
    [][\A c \in PLAYER_IDS :
          SameGame(c) =>
              \A i \in 1..25 : GameState[c].revealed[i] => GameState'[c].revealed[i]]_vars

\* C4: on any client, for a fixed GameCode, once gameOver is true with winner
\* w, gameOver stays true and winner stays w in every later state.
GameOverMonotonic ==
    [][\A c \in PLAYER_IDS :
          (SameGame(c) /\ GameState[c].gameOver) =>
              /\ GameState'[c].gameOver
              /\ GameState'[c].winner = GameState[c].winner]_vars

\* the fields of a GameState that a snapshot carries, last_action apart
SyncedFields(g) ==
    [revealed |-> g.revealed, currentTurn |-> g.currentTurn,
     redRemaining |-> g.redRemaining, blueRemaining |-> g.blueRemaining,
     gameOver |-> g.gameOver, winner |-> g.winner, currentClue |-> g.currentClue,
     currentClueNumber |-> g.currentClueNumber, guessesRemaining |-> g.guessesRemaining,
     clueHistory |-> g.clueHistory, players |-> g.players]

\* the same fields of a row or payload
SnapshotFields(data) ==
    [revealed |-> data.revealed, currentTurn |-> data.current_turn,
     redRemaining |-> data.red_remaining, blueRemaining |-> data.blue_remaining,
     gameOver |-> data.game_over, winner |-> data.winner, currentClue |-> data.current_clue,
     currentClueNumber |-> data.current_clue_number,
     guessesRemaining |-> data.guesses_remaining,
     clueHistory |-> data.clue_history, players |-> data.players]

\* the step is the delivery of a notification to client c
NotificationStep(c) ==
    /\ lastOp'.op = "notification"
    /\ lastOp'.player = c
    /\ inbox[c] # <<>>
    /\ inbox'[c] = Tail(inbox[c])

\* C5: a notification without a redirect is adopted (all synced fields and
\* lastAction are overwritten with the payload's) if and only if its
\* last_action is strictly greater than the local lastAction; otherwise the
\* whole local GameState is left as it is.
NotificationLastWriteWins ==
    [][\A c \in PLAYER_IDS :
          (NotificationStep(c) /\ Head(inbox[c]).new_game_redirect = nullString) =>
              IF Head(inbox[c]).last_action > TimeOf(GameState[c].lastAction)
              THEN /\ SyncedFields(GameState'[c]) = SnapshotFields(Head(inbox[c]))
                   /\ GameState'[c].lastAction = Head(inbox[c]).last_action
              ELSE GameState'[c] = GameState[c]]_vars

\* a notification older than the local lastAction has just been discarded by
\* a client whose state it would have changed
NotificationDiscardedWitness ==
    /\ lastOp.op = "notification"
    /\ lastOp.arg < TimeOf(GameState[lastOp.player].lastAction)
    /\ lastOp.arg >= StartTime

\* the row client c fetches for its game is not strictly newer than its state
NotNewer(c) ==
    \/ Fetch(GameState[c].gameCode) = NoRow
    \/ ~(Fetch(GameState[c].gameCode).last_action > TimeOf(GameState[c].lastAction))

\* C6: manual sync, the background poll, the visibility sync and the
\* back-online sync discard a fetched record whose last_action is not
\* strictly greater than the local lastAction and leave GameState unchanged.
ReconcileGreaterThanRule ==
    [][\A c \in PLAYER_IDS :
          ((ManualSync(c) \/ BackgroundSync(c) \/ VisibilityChange(c) \/ Online(c))
             /\ NotNewer(c)) =>
              GameState'[c] = GameState[c]]_vars

\* client c receives a snapshot of its game that carries a redirect, by a
\* notification or by one of the fetching paths
ReceivesRedirect(c, newCode) ==
    \/ /\ NotificationStep(c)
       /\ Head(inbox[c]).new_game_redirect = newCode
    \/ /\ ManualSync(c) \/ BackgroundSync(c) \/ VisibilityChange(c) \/ Online(c)
          \/ Subscribed(c)
       /\ Fetch(GameState[c].gameCode) # NoRow
       /\ Fetch(GameState[c].gameCode).new_game_redirect = newCode

\* C7: a client that receives, by any synchronizer path, a snapshot of its
\* game with a non-null new_game_redirect applies none of the snapshot's
\* fields to the old game and moves to the redirect's GameCode (the
\* re-initialization is under way or done).
RedirectHandled ==
    [][\A c \in PLAYER_IDS, newCode \in GameCodes :
          ReceivesRedirect(c, newCode) =>
              /\ \/ newCode \in redirectTimers'[c]
                 \/ GameState'[c].gameCode = newCode
              /\ SameGame(c) => GameState'[c] = GameState[c]]_vars

-----------------------------------------------------------------------------
(* Properties of card reveals *)

\* the step is an accepted click of client c on the card at the index
RevealStep(c, index) ==
    /\ lastOp' = Op("handleCardClick", c, index)
    /\ ClickAccepted(GameState[c], index)
    /\ ~GameState[c].revealed[index + 1]
    /\ GameState'[c].revealed[index + 1]

\* the role of the card at the index on client c's board
RoleAt(c, index) == GameState[c].cardTypes[index + 1]

\* the RemainingCount of a team
Remaining(g, team) == IF team = "red" THEN g.redRemaining ELSE g.blueRemaining

\* C8: revealing the assassin ends the game with the opposite of currentTurn
\* as winner, does not flip currentTurn and changes no RemainingCount,
\* whatever the RemainingCounts and guessesRemaining were.
AssassinPrecedence ==
    [][\A c \in PLAYER_IDS, index \in CardInputs :
          (RevealStep(c, index) /\ RoleAt(c, index) = "assassin") =>
              /\ GameState'[c].gameOver
              /\ GameState'[c].winner = OtherTeam(GameState[c].currentTurn)
              /\ GameState'[c].currentTurn = GameState[c].currentTurn
              /\ GameState'[c].redRemaining = GameState[c].redRemaining
              /\ GameState'[c].blueRemaining = GameState[c].blueRemaining]_vars

\* the assassin has just been revealed by the team that had one card left
AssassinPrecedenceWitness ==
    /\ lastOp = Op("handleCardClick", lastOp.player, AssassinCard)
    /\ lastOp.player \in PLAYER_IDS
    /\ GameState[lastOp.player].revealed[AssassinCard + 1]
    /\ GameState[lastOp.player].gameOver
    /\ Remaining(GameState[lastOp.player], GameState[lastOp.player].currentTurn) = 1
    /\ GameState[lastOp.player].winner = OtherTeam(GameState[lastOp.player].currentTurn)

\* the card at the index is neither the current team's nor the assassin
WrongCard(c, index) == RoleAt(c, index) \notin {GameState[c].currentTurn, "assassin"}

\* the effects of a wrong card on client c
TurnPassed(c, index) ==
    /\ GameState'[c].revealed[index + 1]
    /\ GameState'[c].currentTurn = OtherTeam(GameState[c].currentTurn)
    /\ GameState'[c].currentClue = nullString
    /\ GameState'[c].guessesRemaining = 0

LastCardOfItsTeam(c, index) ==
    /\ RoleAt(c, index) \in {"red", "blue"}
    /\ Remaining(GameState[c], RoleAt(c, index)) = 1

OwnTeamGuess ==
    [][\A c \in PLAYER_IDS, index \in CardInputs :
          (/\ RevealStep(c, index)
           /\ RoleAt(c, index) = GameState[c].currentTurn
           /\ ~GameState'[c].gameOver) =>
              /\ Remaining(GameState'[c], GameState[c].currentTurn)
                   = Remaining(GameState[c], GameState[c].currentTurn) - 1
              /\ Remaining(GameState'[c], OtherTeam(GameState[c].currentTurn))
                   = Remaining(GameState[c], OtherTeam(GameState[c].currentTurn))
              /\ GameState'[c].guessesRemaining = GameState[c].guessesRemaining - 1
              /\ IF GameState'[c].guessesRemaining = 0
                 THEN /\ GameState'[c].currentTurn = OtherTeam(GameState[c].currentTurn)
                      /\ GameState'[c].currentClue = nullString
                 ELSE /\ GameState'[c].currentTurn = GameState[c].currentTurn
                      /\ GameState'[c].currentClue = GameState[c].currentClue]_vars

\* a team has just revealed a card of its own with its last guess, and the
\* turn has passed to the other team
OwnTeamGuessWitness ==
    /\ lastOp.op = "handleCardClick"
    /\ lastOp.player \in PLAYER_IDS
    /\ GameState[lastOp.player].revealed[lastOp.arg + 1]
    /\ GameState[lastOp.player].cardTypes[lastOp.arg + 1]
         = OtherTeam(GameState[lastOp.player].currentTurn)
    /\ ~GameState[lastOp.player].gameOver
    /\ GameState[lastOp.player].currentClue = nullString
    /\ GameState[lastOp.player].guessesRemaining = 0
    /\ Remaining(GameState[lastOp.player], OtherTeam(GameState[lastOp.player].currentTurn)) = 7

-----------------------------------------------------------------------------
(* Properties of clues *)

\* "TREE"
TREE == <<84, 82, 69, 69>>

\* the words of ClueWords that are one token once trimmed: "tree", " tree "
OneToken == {<<116, 114, 101, 101>>, <<32, 116, 114, 101, 101, 32>>}

\* a clue entry without its id
EntryOf(team, word, number, stillApplies) ==
    [team |-> team, word |-> word, number |-> number, stillApplies |-> stillApplies]

\* the entries of a clue history without their ids
Entries(history) ==
    [k \in 1..Len(history) |->
        EntryOf(history[k].team, history[k].word, history[k].number,
                history[k].stillApplies)]

\* C12: an accepted GiveClue(word, count) sets currentClue to the upper-cased
\* trimmed word, currentClueNumber to count, guessesRemaining to 99 when
\* count = 0 and to count + 1 otherwise, and appends exactly one ClueHistory
\* entry {team = currentTurn, word, number = count, stillApplies = true}.
ClueSemantics ==
    [][\A c \in PLAYER_IDS, word \in OneToken, number \in ClueNumbers :
          GiveClueClick(c, word, number) =>
              /\ GameState'[c].currentClue = TREE
              /\ GameState'[c].currentClueNumber = number
              /\ GameState'[c].guessesRemaining = IF number = 0 THEN 99 ELSE number + 1
              /\ Entries(GameState'[c].clueHistory)
                   = Append(Entries(GameState[c].clueHistory),
                            EntryOf(GameState[c].currentTurn, TREE, number, TRUE))]_vars

\* a clue of 0 has been given since the pages were loaded
ClueSemanticsWitness ==
    \E c \in PLAYER_IDS :
        /\ GameState[c].clueHistory # <<>>
        /\ GameState[c].clueHistory[Len(GameState[c].clueHistory)].id >= StartTime
        /\ GameState[c].clueHistory[Len(GameState[c].clueHistory)].number = 0
        /\ GameState[c].currentClue = TREE
        /\ GameState[c].guessesRemaining = 99

-----------------------------------------------------------------------------
(* The handlers called one after another on games in progress *)

\* the games the handlers are called on: those of SavedGames, a game with an
\* unlimited clue, a game whose turn has just ended and a finished game
RulesGames ==
    SavedGames \cup {EarlyGame(0), endTurn(EarlyGame(1)),
                     revealCard(LateGame("red", 0), AssassinCard)}

\* the roles of the two players: any role or none for the first
RulesRoles ==
    {roles \in [PLAYER_IDS -> Roles \cup {null}] : roles.player_2 = "blue-spymaster"}

\* the client whose handlers are called
RulesPlayers == {"player_1"}

\* the words giveClue is called with: "tree", "two words", " ", ""
RulesWords == ClueWords \ {<<32, 116, 114, 101, 101, 32>>}

\* the numbers giveClue is called with: those of ClueNumbers and one below 0,
\* giveClue taking whatever parseInt makes of the value of clue-number
RulesNumbers == ClueNumbers \cup {-2}

\* the indexes toggleClueApplies is called with
RulesToggles == {-1, 0, 1, 2}

\* the record of a call: the handler, the client and the arguments
RulesOp(name, c, index, word, number) ==
    [op |-> name, player |-> c, arg |-> [index |-> index, word |-> word, number |-> number]]

RulesInit ==
    /\ wordList = WORD_LIST
    /\ boardCode = CodeA
    /\ firstBoard = NoBoard
    /\ lastBoard = NoBoard
    /\ boardCalls = <<>>
    /\ \E saved \in RulesGames, roles \in RulesRoles :
          /\ games = [code \in GameCodes |->
                        IF code = CodeA
                        THEN RowOf(getSyncableState(
                                       [saved EXCEPT !.players = SavedPlayers(roles)], 1),
                                   nullString)
                        ELSE NoRow]
          /\ GameState = [c \in PLAYER_IDS |->
                            LoadedGame(saved, roles[c], SavedPlayers(roles))]
          /\ backgroundSyncInterval = [c \in PLAYER_IDS |-> roles[c] # null]
          /\ localStorage =
                [c \in PLAYER_IDS |->
                    [state |-> [code \in GameCodes |-> NoRow],
                     role  |-> [code \in GameCodes |->
                                  IF code = CodeA THEN roles[c] ELSE null]]]
    /\ gameSubscription = [c \in PLAYER_IDS |-> [code |-> CodeA, status |-> "joining"]]
    /\ subscriptionRetries = [c \in PLAYER_IDS |-> 0]
    /\ inbox = [c \in PLAYER_IDS |-> <<>>]
    /\ pending = {}
    /\ redirectTimers = [c \in PLAYER_IDS |-> {}]
    /\ screen = [c \in PLAYER_IDS |->
                    IF GameState[c].playerRole # null
                    THEN [shown |-> "game-area", display |-> updateGameDisplay(GameState[c])]
                    ELSE [shown |-> "role-modal", display |-> NoDisplay]]
    /\ now = StartTime
    /\ lastOp = RulesOp("init", "", 0, <<>>, 0)
    /\ NoChannelCalls

\* a handler of client c that leaves GameState[c] as g and, if saves holds,
\* goes on to saveGameState
RulesCall(c, g, saves, op) ==
    /\ IF saves
       THEN saveGameState(c, g, "updateGameDisplay", nullString, localStorage)
       ELSE UNCHANGED <<GameState, localStorage, pending, now>>
    /\ lastOp' = op
    /\ UNCHANGED <<games, gameSubscription, subscriptionRetries, inbox, redirectTimers,
                   backgroundSyncInterval, screen, boardVars, channelVars>>

\* handleCardClick(index)
CallHandleCardClick(c, index) ==
    RulesCall(c, handleCardClick(GameState[c], index), ClickAccepted(GameState[c], index),
              RulesOp("handleCardClick", c, index, <<>>, 0))

\* giveClue(word, number)
CallGiveClue(c, word, number) ==
    RulesCall(c, giveClue(GameState[c], word, number, now), ClueAccepted(word),
              RulesOp("giveClue", c, 0, word, number))

\* endTurn()
CallEndTurn(c) ==
    RulesCall(c, endTurn(GameState[c]), TRUE, RulesOp("endTurn", c, 0, <<>>, 0))

\* toggleClueApplies(index)
CallToggleClueApplies(c, index) ==
    RulesCall(c, toggleClueApplies(GameState[c], index),
              index >= 0 /\ index < Len(GameState[c].clueHistory),
              RulesOp("toggleClueApplies", c, index, <<>>, 0))

RulesNext ==
    \E c \in RulesPlayers :
        \/ \E index \in CardInputs : CallHandleCardClick(c, index)
        \/ \E word \in RulesWords, number \in RulesNumbers : CallGiveClue(c, word, number)
        \/ CallEndTurn(c)
        \/ \E index \in RulesToggles : CallToggleClueApplies(c, index)

SpecRules == RulesInit /\ [][RulesNext]_vars

\* the step is a call of the handler by client c, whatever its arguments
CallOf(name, c) == lastOp'.op = name /\ lastOp'.player = c

\* nothing of the client's state is changed and nothing is published
NothingDone == UNCHANGED <<GameState, pending, localStorage, games>>

\* the words of RulesWords that are empty, blank or of more than one token:
\* "two words", " ", ""
BadClueWords == {<<116, 119, 111, 32, 119, 111, 114, 100, 115>>, <<32>>, <<>>}

\* C13: GiveClue with an empty or whitespace-only word, or with a word of more
\* than one token, leaves the whole GameState unchanged and publishes nothing.
ClueFormatRejected ==
    [][\A c \in RulesPlayers :
          (CallOf("giveClue", c) /\ lastOp'.arg.word \in BadClueWords) => NothingDone]_vars

\* the spymaster of the team to move, with no clue pending, has just called
\* giveClue with "two words"
ClueFormatRejectedWitness ==
    /\ lastOp.op = "giveClue"
    /\ lastOp.arg.word = <<116, 119, 111, 32, 119, 111, 114, 100, 115>>
    /\ GameState[lastOp.player].playerRole = "blue-spymaster"
    /\ GameState[lastOp.player].currentTurn = "blue"
    /\ GameState[lastOp.player].currentClue = nullString
    /\ ~GameState[lastOp.player].gameOver
    /\ pending = {}

\* the operative role of a team
OperativeOf(team) == IF team = "red" THEN "red-operative" ELSE "blue-operative"

\* the situation in which a card click is a valid reveal
RevealValid(g, index) ==
    /\ g.playerRole = OperativeOf(g.currentTurn)
    /\ ~g.revealed[index + 1]
    /\ g.currentClue # nullString
    /\ ~g.gameOver

\* C15: a card click changes the state only when the role is an operative of
\* currentTurn's team, the index is unrevealed, a clue is pending and the game
\* is not over; in every other situation GameState is unchanged and nothing
\* is published.
RevealGuards ==
    [][\A c \in RulesPlayers :
          (CallOf("handleCardClick", c)
             /\ ~RevealValid(GameState[c], lastOp'.arg.index)) => NothingDone]_vars

\* the other team's operative has just clicked an unrevealed card while a
\* clue was pending, and nothing has been published
RevealGuardsWitness ==
    /\ lastOp.op = "handleCardClick"
    /\ GameState[lastOp.player].playerRole = OperativeOf(OtherTeam(GameState[lastOp.player].currentTurn))
    /\ ~GameState[lastOp.player].revealed[lastOp.arg.index + 1]
    /\ GameState[lastOp.player].currentClue # nullString
    /\ ~GameState[lastOp.player].gameOver
    /\ pending = {}

\* C17: EndTurn sets currentClue = null, currentClueNumber = 0 and
\* guessesRemaining = 0, flips currentTurn, and leaves revealed, redRemaining,
\* blueRemaining, gameOver, winner and clueHistory unchanged.
EndTurnEffect ==
    [][\A c \in RulesPlayers :
          CallOf("endTurn", c) =>
              /\ GameState'[c].currentClue = nullString
              /\ GameState'[c].currentClueNumber = 0
              /\ GameState'[c].guessesRemaining = 0
              /\ GameState'[c].currentTurn = OtherTeam(GameState[c].currentTurn)
              /\ GameState'[c].revealed = GameState[c].revealed
              /\ GameState'[c].redRemaining = GameState[c].redRemaining
              /\ GameState'[c].blueRemaining = GameState[c].blueRemaining
              /\ GameState'[c].gameOver = GameState[c].gameOver
              /\ GameState'[c].winner = GameState[c].winner
              /\ GameState'[c].clueHistory = GameState[c].clueHistory]_vars

\* endTurn has just been called on a game that had a clue of 1 pending and
\* cards revealed
EndTurnEffectWitness ==
    /\ lastOp.op = "endTurn"
    /\ Cardinality(pending) = 1
    /\ \E req \in pending : req.syncState.current_turn = "red"
    /\ GameState[lastOp.player].currentTurn = "red"
    /\ GameState[lastOp.player].currentClue = nullString
    /\ GameState[lastOp.player].redRemaining = 1
    /\ GameState[lastOp.player].clueHistory # <<>>
    /\ localStorage[lastOp.player].state[CodeA] # NoRow

-----------------------------------------------------------------------------
(* Properties of the handlers behind the page *)

\* the spymaster role of a team
SpymasterOf(team) == IF team = "red" THEN "red-spymaster" ELSE "blue-spymaster"

\* the situation in which a clue may be given
ClueValid(g) ==
    /\ g.playerRole = SpymasterOf(g.currentTurn)
    /\ g.currentClue = nullString
    /\ ~g.gameOver

\* C14: GiveClue changes the state only when the acting player is the
\* spymaster of currentTurn, currentClue is null and the game is not over; in
\* any other situation it leaves GameState unchanged.
GiveClueGuards ==
    [][\A c \in PLAYER_IDS, word \in ClueWords, number \in ClueNumbers :
          (GiveClueClick(c, word, number) /\ ~ClueValid(GameState[c])) =>
              GameState'[c] = GameState[c]]_vars

\* the fields of a GameState the rules of the game work on
RuleFields(g) ==
    [revealed |-> g.revealed, currentTurn |-> g.currentTurn,
     redRemaining |-> g.redRemaining, blueRemaining |-> g.blueRemaining,
     currentClue |-> g.currentClue, currentClueNumber |-> g.currentClueNumber,
     guessesRemaining |-> g.guessesRemaining]

\* the step is a card click, a give-clue click or an end-turn click of client c
LocalOperation(c) ==
    \/ \E index \in CardInputs : CardClick(c, index)
    \/ \E word \in ClueWords, number \in ClueNumbers : GiveClueClick(c, word, number)
    \/ EndTurnClick(c)

\* C16: once gameOver is true, no RevealCard, GiveClue or EndTurn changes
\* revealed, currentTurn, redRemaining, blueRemaining, currentClue,
\* currentClueNumber or guessesRemaining.
GameOverTerminal ==
    [][\A c \in PLAYER_IDS :
          (GameState[c].gameOver /\ LocalOperation(c)) =>
              RuleFields(GameState'[c]) = RuleFields(GameState[c])]_vars

\* the (team, word, number) entries of a clue history
ClueTriples(history) ==
    [k \in 1..Len(history) |->
        [team |-> history[k].team, word |-> history[k].word, number |-> history[k].number]]

\* sequence s is a prefix of sequence t
IsPrefix(s, t) == Len(s) <= Len(t) /\ s = SubSeq(t, 1, Len(s))

\* C20: on any client, for a fixed GameCode, the (team, word, number) entries
\* of the clue history of a state are a prefix of those of every later state,
\* whatever clues and synchronizer updates are interleaved.
ClueHistoryAppendOnly ==
    [][\A c \in PLAYER_IDS :
          SameGame(c) =>
              IsPrefix(ClueTriples(GameState[c].clueHistory),
                       ClueTriples(GameState'[c].clueHistory))]_vars

-----------------------------------------------------------------------------
(* Properties of calls that follow one another *)

\* the fields EndTurn works on
TurnFields(g) ==
    [currentTurn |-> g.currentTurn, currentClue |-> g.currentClue,
     currentClueNumber |-> g.currentClueNumber, guessesRemaining |-> g.guessesRemaining]

\* C18: EndTurn called twice in a row leaves currentTurn, currentClue,
\* currentClueNumber and guessesRemaining as they were after the first call,
\* and the second call still publishes a record with a fresh last_action.
EndTurnIdempotent ==
    [][\A c \in RulesPlayers :
          (lastOp.op = "endTurn" /\ lastOp.player = c /\ CallOf("endTurn", c)) =>
              /\ TurnFields(GameState'[c]) = TurnFields(GameState[c])
              /\ \E req \in pending' \ pending :
                    \A old \in pending : req.syncState.last_action > old.syncState.last_action]_vars

\* C19: ToggleClueApplies(index) with an index of the clue history flips
\* stillApplies of that entry and changes nothing else, so that a second
\* toggle of the index restores the history; with any other index it changes
\* nothing and publishes nothing.
ToggleFrame ==
    [][\A c \in RulesPlayers :
          CallOf("toggleClueApplies", c) =>
              IF lastOp'.arg.index \in 0..(Len(GameState[c].clueHistory) - 1)
              THEN /\ GameState'[c].clueHistory[lastOp'.arg.index + 1].stillApplies
                        = ~GameState[c].clueHistory[lastOp'.arg.index + 1].stillApplies
                   /\ \A k \in 1..Len(GameState[c].clueHistory) :
                         k # lastOp'.arg.index + 1 =>
                             GameState'[c].clueHistory[k] = GameState[c].clueHistory[k]
                   /\ ClueTriples(GameState'[c].clueHistory)
                        = ClueTriples(GameState[c].clueHistory)
                   /\ [GameState'[c] EXCEPT !.clueHistory = GameState[c].clueHistory]
                        = GameState[c]
                   /\ toggleClueApplies(GameState'[c], lastOp'.arg.index) = GameState[c]
              ELSE NothingDone]_vars

\* the second clue of a history of three has been toggled twice in a row and
\* every clue applies again
ToggleFrameWitness ==
    /\ lastOp.op = "toggleClueApplies"
    /\ lastOp.arg.index = 1
    /\ Cardinality(pending) = 2
    /\ \E req \in pending : ~req.syncState.clue_history[2].stillApplies
    /\ Len(GameState[lastOp.player].clueHistory) = 3
    /\ \A k \in 1..3 : GameState[lastOp.player].clueHistory[k].stillApplies

-----------------------------------------------------------------------------
(* Properties of the fields of GameState *)

\* C21: guessesRemaining is a non-negative integer in every reachable state,
\* for every integer clue count GiveClue accepts and every later sequence of
\* reveals and turn ends.
GuessesNonNegative ==
    \A c \in PLAYER_IDS : GameState[c].guessesRemaining \in Nat

\* C22: for a fixed GameCode the lastAction of a client never decreases,
\* whichever path adopts a remote record: notification, reconnect fetch, poll,
\* manual sync, role selection or game start.
LastActionMonotonic ==
    [][\A c \in PLAYER_IDS :
          SameGame(c) =>
              TimeOf(GameState'[c].lastAction) >= TimeOf(GameState[c].lastAction)]_vars

-----------------------------------------------------------------------------
(* Convergence of the clients on the remote record *)

\* the games the clients start from here
ConvergeGames == {EarlyGame(1)}

\* both clients have chosen a role, so that both poll
ConvergeRoles == {roles \in SavedRoles : \A c \in PLAYER_IDS : roles[c] # null}

InitConverge == InitFrom(ConvergeGames, ConvergeRoles)

\* an upsert succeeds once every payload sent before it has been taken by its
\* callback, so that no notification is lost
UpsertDelivered(req) ==
    /\ \A c \in PLAYER_IDS : inbox[c] = <<>>
    /\ UpsertOk(req)

\* card clicks, turn ends and manual syncs of the players, and the steps of
\* the synchronizer when no upsert fails and no notification is lost
NextConverge ==
    \/ \E c \in PLAYER_IDS, index \in CardInputs : CardClick(c, index)
    \/ \E c \in PLAYER_IDS : EndTurnClick(c)
    \/ \E c \in PLAYER_IDS : ManualSync(c)
    \/ \E c \in PLAYER_IDS : BackgroundSync(c)
    \/ \E c \in PLAYER_IDS : Subscribed(c)
    \/ \E c \in PLAYER_IDS : Notification(c)
    \/ \E req \in pending : UpsertDelivered(req)

\* the interval of startBackgroundSync keeps ticking, the channel reaches
\* SUBSCRIBED and delivers its payloads, and every upsert in flight succeeds
Delivery ==
    /\ \A c \in PLAYER_IDS :
          /\ WF_vars(BackgroundSync(c))
          /\ WF_vars(Subscribed(c))
          /\ WF_vars(Notification(c))
    /\ WF_vars(\E req \in pending : UpsertDelivered(req))

SpecConverge == InitConverge /\ [][NextConverge]_vars /\ Delivery

\* an operation of the player at the page of client c
UserAction ==
    \E c \in PLAYER_IDS :
        \/ \E index \in CardInputs : CardClick(c, index)
        \/ \E word \in ClueWords, number \in ClueNumbers : GiveClueClick(c, word, number)
        \/ EndTurnClick(c)
        \/ \E index \in ToggleInputs : ToggleClick(c, index)
        \/ \E role \in RoleInputs : SelectRole(c, role)
        \/ \E newCode \in GameCodes : NewGameFromBoard(c, newCode)
        \/ ManualSync(c)

\* the fields of a game the claim of convergence names
ConvergedFields(f) ==
    [revealed |-> f.revealed, currentTurn |-> f.currentTurn,
     redRemaining |-> f.redRemaining, blueRemaining |-> f.blueRemaining,
     gameOver |-> f.gameOver, winner |-> f.winner,
     currentClue |-> f.currentClue, guessesRemaining |-> f.guessesRemaining,
     clueHistory |-> f.clueHistory]

Converged ==
    \A c \in PLAYER_IDS :
        (GameState[c].gameCode # nullString /\ games[GameState[c].gameCode] # NoRow)
            => ConvergedFields(SyncedFields(GameState[c]))
                   = ConvergedFields(SnapshotFields(games[GameState[c].gameCode]))

\* C23: if the clients stop performing local actions and every publish has
\* completed, while notifications and polls keep being delivered, then every
\* client eventually holds the synced fields of the remote record of its
\* GameCode and keeps them
Convergence ==
    (<>[][~UserAction]_vars /\ <>[](pending = {})) => <>[]Converged

-----------------------------------------------------------------------------
(* The channels of one client, setupSupabaseSubscription and joinNewGame     *)
(* followed through their awaits                                             *)

\* channels opened by .channel(...).subscribe(...) in one behaviour
MaxChannels == 4

\* calls suspended at await removeChannel at a time
MaxAwaiting == 2

\* retry timers pending at a time
MaxRetryTimers == 1

maxSubscriptionRetries == 5

\* the client followed
ChannelPlayers == {"player_1"}

\* let gameSubscription = null
NoSubscription == [id |-> 0, code |-> nullString]

\* the channel game_<code> that the id-th call of supabaseClient.channel returns
Channel(id, code) == [id |-> id, code |-> code]

\* a call suspended at await supabaseClient.removeChannel(gameSubscription)
Suspended(fn, newCode) == [fn |-> fn, newCode |-> newCode]

\* s without its i-th element
RemoveAt(s, i) == SubSeq(s, 1, i - 1) \o SubSeq(s, i + 1, Len(s))

\* a page opened with ?game=<code>, before init() has run
ChannelInit ==
    /\ wordList = WORD_LIST
    /\ boardCode = CodeA
    /\ firstBoard = NoBoard
    /\ lastBoard = NoBoard
    /\ boardCalls = <<>>
    /\ GameState = [c \in ChannelPlayers |-> InitialGameState]
    /\ gameSubscription = [c \in ChannelPlayers |-> NoSubscription]
    /\ subscriptionRetries = [c \in ChannelPlayers |-> 0]
    /\ redirectTimers = [c \in ChannelPlayers |-> {}]
    /\ channels = [c \in ChannelPlayers |-> {}]
    /\ awaiting = [c \in ChannelPlayers |-> <<>>]
    /\ retryTimers = [c \in ChannelPlayers |-> 0]
    /\ channelsOpened = 0
    /\ games = NoGame
    /\ inbox = NoGame
    /\ pending = NoGame
    /\ backgroundSyncInterval = NoGame
    /\ localStorage = NoGame
    /\ screen = NoGame
    /\ now = 0
    /\ lastOp = NoGame

\* gameSubscription = supabaseClient.channel(`game_${GameState.gameCode}`)
\* .on(...).subscribe(...), the gameCode being code
OpenChannel(c, code) ==
    /\ channelsOpened < MaxChannels
    /\ gameSubscription' = [gameSubscription EXCEPT
                               ![c] = Channel(channelsOpened + 1, code)]
    /\ channels' = [channels EXCEPT ![c] = @ \cup {Channel(channelsOpened + 1, code)}]
    /\ channelsOpened' = channelsOpened + 1

\* setupSupabaseSubscription() up to its first await, the gameCode being code
\* and waits the calls suspended so far: without a channel in gameSubscription
\* the new channel is opened at once, with one the call asks for its removal
\* and is suspended
SetupCall(c, code, waits) ==
    IF gameSubscription[c] = NoSubscription
    THEN /\ OpenChannel(c, code)
         /\ awaiting' = [awaiting EXCEPT ![c] = waits]
    ELSE /\ Len(waits) < MaxAwaiting
         /\ channels' = [channels EXCEPT ![c] = @ \ {gameSubscription[c]}]
         /\ awaiting' = [awaiting EXCEPT
                            ![c] = Append(waits, Suspended("setupSupabaseSubscription",
                                                           nullString))]
         /\ UNCHANGED <<gameSubscription, channelsOpened>>

\* what the calls of this section leave alone
ChannelFrame ==
    UNCHANGED <<games, inbox, pending, backgroundSyncInterval, localStorage, screen, now,
                lastOp, boardVars>>

\* init(): initializeGame(CodeA) on the page just opened
LoadPage(c) ==
    /\ GameState[c].gameCode = nullString
    /\ GameState' = [GameState EXCEPT ![c] = initializeGame(@, CodeA)]
    /\ SetupCall(c, CodeA, awaiting[c])
    /\ UNCHANGED <<subscriptionRetries, redirectTimers, retryTimers>>
    /\ ChannelFrame

\* manualSync() up to the first await
ManualSyncCall(c) ==
    /\ GameState[c].gameCode # nullString
    /\ subscriptionRetries' = [subscriptionRetries EXCEPT ![c] = 0]
    /\ SetupCall(c, GameState[c].gameCode, awaiting[c])
    /\ UNCHANGED <<GameState, redirectTimers, retryTimers>>
    /\ ChannelFrame

\* the online handler up to the first await
OnlineCall(c) ==
    /\ GameState[c].gameCode # nullString
    /\ subscriptionRetries' = [subscriptionRetries EXCEPT ![c] = 0]
    /\ SetupCall(c, GameState[c].gameCode, awaiting[c])
    /\ UNCHANGED <<GameState, redirectTimers, retryTimers>>
    /\ ChannelFrame

\* if (subscriptionRetries < maxSubscriptionRetries) with the bound raised by one
MayRetryOnceMore(retries) == retries <= maxSubscriptionRetries

\* if (subscriptionRetries < maxSubscriptionRetries)
MayRetry(retries) == retries < maxSubscriptionRetries

\* the subscribe callback of an open channel with CHANNEL_ERROR or TIMED_OUT
ChannelError(c, ch) ==
    /\ ch \in channels[c]
    /\ IF MayRetry(subscriptionRetries[c])
       THEN /\ retryTimers[c] < MaxRetryTimers
            /\ subscriptionRetries' = [subscriptionRetries EXCEPT ![c] = @ + 1]
            /\ retryTimers' = [retryTimers EXCEPT ![c] = @ + 1]
       ELSE UNCHANGED <<subscriptionRetries, retryTimers>>
    /\ UNCHANGED <<GameState, gameSubscription, redirectTimers, channels, awaiting,
                   channelsOpened>>
    /\ ChannelFrame

\* a retry timer fires: setupSupabaseSubscription()
RetryFires(c) ==
    /\ retryTimers[c] > 0
    /\ retryTimers' = [retryTimers EXCEPT ![c] = @ - 1]
    /\ SetupCall(c, GameState[c].gameCode, awaiting[c])
    /\ UNCHANGED <<GameState, subscriptionRetries, redirectTimers>>
    /\ ChannelFrame

\* the postgres_changes callback of an open channel with a payload whose
\* new_game_redirect is newCode
RedirectPayload(c, ch, newCode) ==
    /\ ch \in channels[c]
    /\ newCode # ch.code
    /\ redirectTimers' = [redirectTimers EXCEPT ![c] = @ \cup {newCode}]
    /\ UNCHANGED <<GameState, gameSubscription, subscriptionRetries, channels, awaiting,
                   retryTimers, channelsOpened>>
    /\ ChannelFrame

\* a redirect timer fires: joinNewGame(newCode) up to its first await
JoinCall(c, newCode) ==
    /\ newCode \in redirectTimers[c]
    /\ gameSubscription[c] # NoSubscription
    /\ Len(awaiting[c]) < MaxAwaiting
    /\ redirectTimers' = [redirectTimers EXCEPT ![c] = @ \ {newCode}]
    /\ channels' = [channels EXCEPT ![c] = @ \ {gameSubscription[c]}]
    /\ awaiting' = [awaiting EXCEPT ![c] = Append(@, Suspended("joinNewGame", newCode))]
    /\ UNCHANGED <<GameState, gameSubscription, subscriptionRetries, retryTimers,
                   channelsOpened>>
    /\ ChannelFrame

\* the i-th suspended call goes on after its await: setupSupabaseSubscription
\* opens the channel of the gameCode of that moment; joinNewGame runs
\* initializeGame(newCode), which calls setupSupabaseSubscription
Resume(c, i) ==
    /\ i \in 1..Len(awaiting[c])
    /\ IF awaiting[c][i].fn = "setupSupabaseSubscription"
       THEN /\ OpenChannel(c, GameState[c].gameCode)
            /\ awaiting' = [awaiting EXCEPT ![c] = RemoveAt(@, i)]
            /\ UNCHANGED <<GameState, subscriptionRetries>>
       ELSE /\ subscriptionRetries' = [subscriptionRetries EXCEPT ![c] = 0]
            /\ GameState' = [GameState EXCEPT
                                ![c] = initializeGame(@, awaiting[c][i].newCode)]
            /\ SetupCall(c, awaiting[c][i].newCode, RemoveAt(awaiting[c], i))
    /\ UNCHANGED <<redirectTimers, retryTimers>>
    /\ ChannelFrame

ChannelNext ==
    \E c \in ChannelPlayers :
        \/ LoadPage(c)
        \/ ManualSyncCall(c)
        \/ OnlineCall(c)
        \/ \E ch \in channels[c] : ChannelError(c, ch)
        \/ RetryFires(c)
        \/ \E ch \in channels[c], newCode \in GameCodes : RedirectPayload(c, ch, newCode)
        \/ \E newCode \in GameCodes : JoinCall(c, newCode)
        \/ \E i \in 1..MaxAwaiting : Resume(c, i)

SpecChannels == ChannelInit /\ [][ChannelNext]_vars

\* C24: at every moment a client has at most one open change-notification
\* channel, and it is for the current GameCode
NoOverlappingSubscriptions ==
    \A c \in ChannelPlayers :
        /\ Cardinality(channels[c]) <= 1
        /\ \A ch \in channels[c] : ch.code = GameState[c].gameCode

-----------------------------------------------------------------------------
(* Requests that fail *)

\* the latest reading of the clock at which a retry of saveGameState may start
NetworkMaxTime == 7

\* how a select ends: with the record, with no record, with an error result
\* or with an exception
FetchOutcomes(gameCode) ==
    (IF games[gameCode] # NoRow THEN {"data"} ELSE {"null"}) \cup {"error", "exception"}

\* const { data, error } of a select that ended with outcome; what data holds
\* beside an error is left to the library, here it is the record
Response(gameCode, outcome) ==
    [data  |-> IF outcome \in {"data", "error"} THEN games[gameCode] ELSE NoRow,
     error |-> outcome = "error"]

\* if (data) alone
MergesAnyData(response) == response.data # NoRow

\* if (data && !error)
Merges(response) == response.data # NoRow /\ ~response.error

\* manualSync() whose select ends with outcome
ManualSyncFetch(c, outcome) ==
    /\ screen[c].shown = "game-area"
    /\ outcome \in FetchOutcomes(GameState[c].gameCode)
    /\ subscriptionRetries' = [subscriptionRetries EXCEPT ![c] = 0]
    /\ gameSubscription' = [gameSubscription EXCEPT
                               ![c] = setupSupabaseSubscription(GameState[c])]
    /\ inbox' = [inbox EXCEPT ![c] = <<>>]
    /\ Adopt(c, /\ outcome # "exception"
                /\ Merges(Response(GameState[c].gameCode, outcome)),
             Response(GameState[c].gameCode, outcome).data)
    /\ lastOp' = [op |-> "manualSync", player |-> c, arg |-> outcome]
    /\ UNCHANGED <<games, pending, redirectTimers, backgroundSyncInterval, localStorage,
                   now, boardVars, channelVars>>

\* syncLatestState() whose select ends with outcome
SyncLatestStateFetch(c, outcome) ==
    /\ GameState[c].gameCode # nullString
    /\ outcome \in FetchOutcomes(GameState[c].gameCode)
    /\ Adopt(c, /\ outcome # "exception"
                /\ Merges(Response(GameState[c].gameCode, outcome))
                /\ IsNewer(Response(GameState[c].gameCode, outcome).data, GameState[c]),
             Response(GameState[c].gameCode, outcome).data)
    /\ lastOp' = [op |-> "syncLatestState", player |-> c, arg |-> outcome]
    /\ UNCHANGED <<games, gameSubscription, subscriptionRetries, inbox, pending,
                   redirectTimers, backgroundSyncInterval, localStorage, now, boardVars,
                   channelVars>>

NetworkInit == InitFrom(ConvergeGames, SavedRoles)

\* role choices, the card clicks and new games of one client, its manual
\* syncs and syncLatestState calls with every outcome of the select, and
\* upserts that succeed or fail
NetworkNext ==
    \/ \E c \in RulesPlayers, index \in {RedCards[1], AssassinCard} : CardClick(c, index)
    \/ \E c \in PLAYER_IDS, role \in RoleInputs : SelectRole(c, role)
    \/ \E c \in RulesPlayers, newCode \in GameCodes : NewGameFromBoard(c, newCode)
    \/ \E c \in RulesPlayers, outcome \in {"data", "null", "error", "exception"} :
          ManualSyncFetch(c, outcome)
    \/ \E c \in RulesPlayers, outcome \in {"data", "null", "error", "exception"} :
          SyncLatestStateFetch(c, outcome)
    \/ \E req \in pending : UpsertOk(req)
    \/ \E req \in pending : UpsertErrorBefore(req, NetworkMaxTime)
    \/ \E req \in pending : BroadcastNewGame(req)

SpecNetwork == NetworkInit /\ [][NetworkNext]_vars

\* the save that ends with this failure is followed by startGame()
StartsGame(req) == req.then = "startGame" /\ req.retryCount = maxRetries

-----------------------------------------------------------------------------
(* Degraded mode: the page without the Supabase SDK, supabaseEnabled false *)
(* and supabaseClient null                                                 *)

\* the games the cache holds when the page is opened
DegradedGames == {EarlyGame(1), LateGame("red", 0), endTurn(LateGame("red", 0))}

\* the functions of the synchronizer called here
SyncCalls == {"setupSupabaseSubscription", "startBackgroundSync", "syncLatestState",
              "manualSync"}

\* init() without a client: initializeGame falls back to the state and the
\* role kept in localStorage; no channel is opened
DegradedInit ==
    /\ wordList = WORD_LIST
    /\ boardCode = CodeA
    /\ firstBoard = NoBoard
    /\ lastBoard = NoBoard
    /\ boardCalls = <<>>
    /\ \E saved \in DegradedGames, roles \in RulesRoles :
          /\ games = [code \in GameCodes |->
                        IF code = CodeA
                        THEN RowOf(getSyncableState(
                                       [saved EXCEPT !.players = SavedPlayers(roles)], 1),
                                   nullString)
                        ELSE NoRow]
          /\ GameState = [c \in PLAYER_IDS |->
                            LoadedGame(saved, roles[c], SavedPlayers(roles))]
          /\ localStorage =
                [c \in PLAYER_IDS |->
                    [state |-> [code \in GameCodes |->
                                  IF code = CodeA
                                  THEN CacheEntry(
                                           getSyncableState(
                                               [saved EXCEPT
                                                   !.players = SavedPlayers(roles)], 1),
                                           roles[c])
                                  ELSE NoRow],
                     role  |-> [code \in GameCodes |->
                                  IF code = CodeA THEN roles[c] ELSE null]]]
    /\ backgroundSyncInterval = [c \in PLAYER_IDS |-> FALSE]
    /\ gameSubscription = [c \in PLAYER_IDS |-> NoChannel]
    /\ subscriptionRetries = [c \in PLAYER_IDS |-> 0]
    /\ inbox = [c \in PLAYER_IDS |-> <<>>]
    /\ pending = {}
    /\ redirectTimers = [c \in PLAYER_IDS |-> {}]
    /\ screen = [c \in PLAYER_IDS |->
                    IF GameState[c].playerRole # null
                    THEN [shown |-> "game-area", display |-> updateGameDisplay(GameState[c])]
                    ELSE [shown |-> "role-modal", display |-> NoDisplay]]
    /\ now = StartTime
    /\ lastOp = RulesOp("init", "", 0, <<>>, 0)
    /\ NoChannelCalls

\* saveGameState() with a client all the same: the upsert is sent
saveRemotely(c, g, storage) == saveGameState(c, g, "updateGameDisplay", nullString, storage)

\* saveGameState() without a client: the cache entry is written and the
\* function returns
saveLocally(c, g, storage) ==
    /\ now < MaxTime
    /\ GameState' = [GameState EXCEPT ![c] = g]
    /\ localStorage' = [storage EXCEPT
                           ![c].state[g.gameCode] =
                               CacheEntry(getSyncableState(g, now), g.playerRole)]
    /\ now' = now + 1
    /\ UNCHANGED pending

\* a handler of client c that leaves GameState[c] as g and, if saves holds,
\* goes on to saveGameState
DegradedCall(c, g, saves, op) ==
    /\ IF saves
       THEN saveLocally(c, g, localStorage)
       ELSE UNCHANGED <<GameState, localStorage, pending, now>>
    /\ lastOp' = op
    /\ UNCHANGED <<games, gameSubscription, subscriptionRetries, inbox, redirectTimers,
                   backgroundSyncInterval, screen, boardVars, channelVars>>

DegradedHandleCardClick(c, index) ==
    DegradedCall(c, handleCardClick(GameState[c], index),
                 ClickAccepted(GameState[c], index),
                 RulesOp("handleCardClick", c, index, <<>>, 0))

DegradedGiveClue(c, word, number) ==
    DegradedCall(c, giveClue(GameState[c], word, number, now), ClueAccepted(word),
                 RulesOp("giveClue", c, 0, word, number))

DegradedEndTurn(c) ==
    DegradedCall(c, endTurn(GameState[c]), TRUE, RulesOp("endTurn", c, 0, <<>>, 0))

DegradedToggleClueApplies(c, index) ==
    DegradedCall(c, toggleClueApplies(GameState[c], index),
                 index >= 0 /\ index < Len(GameState[c].clueHistory),
                 RulesOp("toggleClueApplies", c, index, <<>>, 0))

\* setupSupabaseSubscription(), a tick of the poll, syncLatestState() or
\* manualSync(): each returns at its test of supabaseEnabled
DegradedSync(c, fn) ==
    DegradedCall(c, GameState[c], FALSE, RulesOp(fn, c, 0, <<>>, 0))

DegradedNext ==
    \E c \in RulesPlayers :
        \/ \E index \in CardInputs : DegradedHandleCardClick(c, index)
        \/ \E word \in RulesWords, number \in ClueNumbers : DegradedGiveClue(c, word, number)
        \/ DegradedEndTurn(c)
        \/ \E index \in RulesToggles : DegradedToggleClueApplies(c, index)
        \/ \E fn \in SyncCalls : DegradedSync(c, fn)

SpecDegraded == DegradedInit /\ [][DegradedNext]_vars

\* GameState after the handler of the step has run with a remote store
WithRemoteStore(c) ==
    CASE lastOp'.op = "handleCardClick" ->
             IF ClickAccepted(GameState[c], lastOp'.arg.index)
             THEN handleCardClick(GameState[c], lastOp'.arg.index)
             ELSE GameState[c]
      [] lastOp'.op = "giveClue" ->
             IF ClueAccepted(lastOp'.arg.word)
             THEN giveClue(GameState[c], lastOp'.arg.word, lastOp'.arg.number, now)
             ELSE GameState[c]
      [] lastOp'.op = "endTurn" -> endTurn(GameState[c])
      [] lastOp'.op = "toggleClueApplies" ->
             IF lastOp'.arg.index >= 0 /\ lastOp'.arg.index < Len(GameState[c].clueHistory)
             THEN toggleClueApplies(GameState[c], lastOp'.arg.index)
             ELSE GameState[c]
      [] OTHER -> GameState[c]

\* C26: without a remote store every publish writes the local cache only and
\* makes no remote call; setupSupabaseSubscription, the poll, syncLatestState
\* and manualSync change neither GameState nor the subscription; giveClue,
\* handleCardClick, endTurn and toggleClueApplies leave the GameState they
\* leave with a remote store
DegradedMode ==
    [][/\ UNCHANGED <<games, pending, inbox, gameSubscription>>
       /\ lastOp'.op \in SyncCalls => UNCHANGED <<GameState, localStorage>>
       /\ GameState' # GameState =>
             localStorage'[lastOp'.player].state[GameState'[lastOp'.player].gameCode]
                 = CacheEntry(getSyncableState(GameState'[lastOp'.player], now),
                              GameState'[lastOp'.player].playerRole)
       /\ GameState' = [GameState EXCEPT
                           ![lastOp'.player] = WithRemoteStore(lastOp'.player)]]_vars

\* a card has been revealed on the page without a client, the cache holds
\* the reveal and nothing was sent
DegradedModeWitness ==
    /\ lastOp.op = "handleCardClick"
    /\ gameSubscription[lastOp.player] = NoChannel
    /\ GameState[lastOp.player].revealed[lastOp.arg.index + 1]
    /\ localStorage[lastOp.player].state[CodeA].syncState.revealed
           = GameState[lastOp.player].revealed
    /\ games[CodeA].revealed # GameState[lastOp.player].revealed
    /\ pending = {}

-----------------------------------------------------------------------------
(* The board and the remote store *)

BoardFields == {"words", "cardTypes", "startingTeam", "card_types", "starting_team"}

\* the board in g
BoardIn(g) == [words |-> g.words, cardTypes |-> g.cardTypes, startingTeam |-> g.startingTeam]

\* data with the board of another game written into it
WithBoard(data, gameCode) ==
    [words         |-> BoardOf(gameCode).words,
     cardTypes     |-> BoardOf(gameCode).cardTypes,
     card_types    |-> BoardOf(gameCode).cardTypes,
     startingTeam  |-> BoardOf(gameCode).startingTeam,
     starting_team |-> BoardOf(gameCode).startingTeam] @@ data

\* the other GameCode
OtherCode(gameCode) == IF gameCode = CodeA THEN CodeB ELSE CodeA

\* C27: in every reachable state the board of a client is the one
\* generateBoardFromSeed yields for its gameCode; the projection it publishes
\* and caches, the requests in flight and the rows hold no words, cardTypes
\* or startingTeam; and adopting a row or a cached projection, even one that
\* carries the board of another game, leaves the client's board unchanged
BoardStaysLocal ==
    /\ \A c \in PLAYER_IDS :
          GameState[c].gameCode # nullString =>
              /\ BoardIn(GameState[c]) = BoardIn(BoardOf(GameState[c].gameCode))
              /\ DOMAIN getSyncableState(GameState[c], now) \cap BoardFields = {}
              /\ \A gameCode \in GameCodes :
                    /\ games[gameCode] # NoRow =>
                          BoardIn(applySyncedState(
                                      GameState[c],
                                      WithBoard(games[gameCode],
                                                OtherCode(GameState[c].gameCode))))
                              = BoardIn(GameState[c])
                    /\ localStorage[c].state[gameCode] # NoRow =>
                          BoardIn(applySyncedState(
                                      GameState[c],
                                      WithBoard(localStorage[c].state[gameCode].syncState,
                                                OtherCode(GameState[c].gameCode))))
                              = BoardIn(GameState[c])
    /\ \A gameCode \in GameCodes :
          games[gameCode] # NoRow => DOMAIN games[gameCode] \cap BoardFields = {}
    /\ \A req \in pending :
          req.kind = "upsert" => DOMAIN req.syncState \cap BoardFields = {}

\* a client that has moved to the second game, with its board, has adopted a
\* notification of that game
BoardStaysLocalWitness ==
    /\ lastOp.op = "notification"
    /\ GameState[lastOp.player].gameCode = CodeB
    /\ TimeOf(GameState[lastOp.player].lastAction) = lastOp.arg
    /\ games[CodeB] # NoRow
    /\ games[CodeB].last_action = lastOp.arg
    /\ BoardIn(GameState[lastOp.player]) = BoardIn(BoardB)
    /\ BoardIn(BoardB) # BoardIn(BoardA)

-----------------------------------------------------------------------------
(* Board generation from word lists of several lengths *)

\* the shortest word list tried
MinWordListLen == 24

\* word lists without duplicates, of MinWordListLen to WordListLen entries
WordLists == {SubSeq(WORD_LIST, 1, n) : n \in MinWordListLen..WordListLen}

SpecWordLists == BoardInitFrom(WordLists) /\ [][BoardNext]_vars

\* C28: from a word list of at least 25 entries without duplicates the
\* generated board has exactly 25 words, all taken from the list and
\* pairwise distinct
BoardWords ==
    (lastBoard # NoBoard /\ Len(wordList) >= 25) =>
        /\ Len(lastBoard.words) = 25
        /\ \A i \in 1..Len(lastBoard.words) :
              \E j \in 1..Len(wordList) : lastBoard.words[i] = wordList[j]
        /\ \A i, j \in 1..Len(lastBoard.words) :
              i # j => lastBoard.words[i] # lastBoard.words[j]

\* a board was generated from a list of exactly 25 words, in another order
BoardWordsWitness ==
    /\ lastBoard # NoBoard
    /\ Len(wordList) = 25
    /\ Len(lastBoard.words) = 25
    /\ lastBoard.words # wordList

\* C29: from a word list of fewer than 25 entries generation fails and no
\* board is produced
InsufficientWords ==
    Len(wordList) < 25 => lastBoard = NoBoard

-----------------------------------------------------------------------------
(* The player name *)

\* the longest run of letters in the names tried
MaxLetters == 21

\* "Player"
PLAYER == <<80, 108, 97, 121, 101, 114>>

\* the argument null, and the argument that is the string str
NullName == [null |-> TRUE, str |-> <<>>]

NameOf(str) == [null |-> FALSE, str |-> str]

Letters(n) == [i \in 1..n |-> 97]

Spaces(n) == [i \in 1..n |-> 32]

\* null, the empty string, strings of spaces, and names of one or two words
\* with or without spaces around them
NameInputs ==
    {NullName} \cup
    {NameOf(Spaces(a) \o Letters(b) \o Spaces(c) \o Letters(d) \o Spaces(e)) :
        a \in 0..1, b \in 0..MaxLetters, c \in 0..1, d \in 0..2, e \in 0..1}

\* substring(0, 20)
Substring20(str) == SubSeq(str, 1, IF Len(str) < 20 THEN Len(str) ELSE 20)

\* x || 'Player' for a string x
OrPlayer(str) == IF str = <<>> THEN PLAYER ELSE str

\* (name || 'Player').trim().substring(0, 20) || 'Player'
setPlayerName(name) ==
    OrPlayer(Substring20(Trim(IF name.null THEN PLAYER ELSE OrPlayer(name.str))))

\* getPlayerName() with item under codenames_player_name, <<>> for no item
getPlayerName(item) == OrPlayer(item)

\* the record of a call: the function, its argument and what it returned
NameOp(name, arg, result) == [op |-> name, arg |-> arg, result |-> result]

\* the page before a name was ever set: localStorage holds no item
NamesInit ==
    /\ wordList = WORD_LIST
    /\ boardCode = CodeA
    /\ firstBoard = NoBoard
    /\ lastBoard = NoBoard
    /\ boardCalls = <<>>
    /\ GameState = NoGame
    /\ games = NoGame
    /\ gameSubscription = NoGame
    /\ subscriptionRetries = NoGame
    /\ inbox = NoGame
    /\ pending = NoGame
    /\ redirectTimers = NoGame
    /\ backgroundSyncInterval = NoGame
    /\ localStorage = [codenames_player_name |-> <<>>]
    /\ screen = NoGame
    /\ now = 0
    /\ lastOp = NameOp("init", NullName, <<>>)
    /\ NoChannelCalls

NamesFrame ==
    UNCHANGED <<GameState, games, gameSubscription, subscriptionRetries, inbox, pending,
                redirectTimers, backgroundSyncInterval, screen, now, boardVars, channelVars>>

SetPlayerName(name) ==
    /\ localStorage' = [localStorage EXCEPT !.codenames_player_name = setPlayerName(name)]
    /\ lastOp' = NameOp("setPlayerName", name, setPlayerName(name))
    /\ NamesFrame

GetPlayerName ==
    /\ lastOp.op = "setPlayerName"
    /\ lastOp' = NameOp("getPlayerName", lastOp.arg,
                        getPlayerName(localStorage.codenames_player_name))
    /\ UNCHANGED localStorage
    /\ NamesFrame

NamesNext ==
    \/ \E name \in NameInputs : SetPlayerName(name)
    \/ GetPlayerName

SpecNames == NamesInit /\ [][NamesNext]_vars

\* C30: for every input setPlayerName stores and returns a name that is not
\* empty, has at most 20 characters and neither starts nor ends with
\* whitespace, and the getPlayerName that follows returns that name
PlayerNameNormalised ==
    lastOp.op \in {"setPlayerName", "getPlayerName"} =>
        /\ lastOp.result = localStorage.codenames_player_name
        /\ lastOp.result # <<>>
        /\ Len(lastOp.result) <= 20
        /\ Head(lastOp.result) # 32
        /\ lastOp.result[Len(lastOp.result)] # 32

-----------------------------------------------------------------------------
(* Publishing: the attempts of one saveGameState call *)

\* the two ways an upsert fails: { error } in its result, or a thrown exception
UpsertFailures == {"error", "exception"}

\* showToast("Sync error - changes saved locally", "warning")
SavedLocallyToast == "Sync error - changes saved locally"

\* no toast
NoToast == ""

\* what saveGameState shows when the attempt made with retryCount has failed:
\* the else of the error branch shows the warning, the catch block has no else
FailureToast(retryCount, failure) ==
    IF ~Retries(retryCount) /\ failure = "error" THEN SavedLocallyToast ELSE NoToast

\* an upsert fails in the given way; the attempt and the toast are recorded
UpsertFails(req, failure) ==
    /\ UpsertFailure(req, NetworkMaxTime)
    /\ lastOp' = [op |-> "upsertFails", player |-> req.player, arg |-> req.retryCount,
                  failure |-> failure,
                  toast |-> FailureToast(req.retryCount, failure)]

\* card clicks and role choices, and upserts that succeed or fail either way
PublishNext ==
    \/ \E c \in PLAYER_IDS, index \in {RedCards[1], AssassinCard} : CardClick(c, index)
    \/ \E c \in PLAYER_IDS, role \in RoleInputs : SelectRole(c, role)
    \/ \E req \in pending : UpsertOk(req)
    \/ \E req \in pending, failure \in UpsertFailures : UpsertFails(req, failure)

SpecPublish == NetworkInit /\ [][PublishNext]_vars

\* the step starts an attempt of a saveGameState call of req's client
Attempts(req) == req \in pending' /\ req \notin pending /\ req.kind = "upsert"

\* C31: one saveGameState call makes at most 4 upsert attempts, the first and
\* at most maxRetries retries, whatever the store answers: no attempt is made
\* with a retryCount above maxRetries and a failure of the attempt made with
\* retryCount = maxRetries starts no other; and every attempt, first or
\* retry, is preceded by the write of the record it carries, with the
\* client's role, under the game's key of the local cache
PublishBounded ==
    [][/\ \A req \in pending' :
             Attempts(req) =>
                /\ req.retryCount \in 0..maxRetries
                /\ localStorage'[req.player].state[req.syncState.game_code] =
                      CacheEntry(req.syncState, GameState'[req.player].playerRole)
       /\ \A req \in pending, failure \in UpsertFailures :
             (UpsertFails(req, failure) /\ req.retryCount = maxRetries)
                 => pending' = pending \ {req}]_vars

\* the fourth attempt of a call is in flight
PublishBoundedWitness ==
    \E req \in pending : req.kind = "upsert" /\ req.retryCount = maxRetries

\* C32: a publish that exhausts its retries surfaces the saved-locally-only
\* warning, whether its last attempt failed with an error result or with an
\* exception, and the failures before the last one surface none
PublishWarning ==
    [][\A req \in pending, failure \in UpsertFailures :
          UpsertFails(req, failure) =>
             lastOp'.toast = IF req.retryCount = maxRetries
                             THEN SavedLocallyToast ELSE NoToast]_vars

-----------------------------------------------------------------------------
(* The statuses of a channel and the retries of the subscription *)

\* retry timers pending at a time while the statuses are followed
MaxStatusTimers == 3

\* the statuses the subscribe callback is called with
Statuses == {"SUBSCRIBED", "CHANNEL_ERROR", "TIMED_OUT", "CLOSED"}

\* showToast("Connection lost. Click refresh to reconnect.", "error")
ConnectionLostToast == "Connection lost. Click refresh to reconnect."

\* the subscribe callback of an open channel with the given status; the
\* status and the toast are recorded. No record is in the store here, so the
\* fetch that follows SUBSCRIBED finds no data
ChannelStatus(c, ch, status) ==
    /\ ch \in channels[c]
    /\ CASE status = "SUBSCRIBED" ->
               /\ subscriptionRetries' = [subscriptionRetries EXCEPT ![c] = 0]
               /\ UNCHANGED retryTimers
         [] status \in {"CHANNEL_ERROR", "TIMED_OUT"} ->
               IF MayRetry(subscriptionRetries[c])
               THEN /\ retryTimers[c] < MaxStatusTimers
                    /\ subscriptionRetries' = [subscriptionRetries EXCEPT ![c] = @ + 1]
                    /\ retryTimers' = [retryTimers EXCEPT ![c] = @ + 1]
               ELSE UNCHANGED <<subscriptionRetries, retryTimers>>
         [] OTHER -> UNCHANGED <<subscriptionRetries, retryTimers>>
    /\ lastOp' = [op |-> status, player |-> c,
                  toast |-> IF /\ status \in {"CHANNEL_ERROR", "TIMED_OUT"}
                               /\ ~MayRetry(subscriptionRetries[c])
                            THEN ConnectionLostToast ELSE NoToast]
    /\ UNCHANGED <<GameState, gameSubscription, redirectTimers, channels, awaiting,
                   channelsOpened, games, inbox, pending, backgroundSyncInterval,
                   localStorage, screen, now, boardVars>>

\* the calls that set up the subscription, the statuses of the open channels,
\* the retry timers, and the redirects that switch the game
RetriesNext ==
    \E c \in ChannelPlayers :
        \/ LoadPage(c)
        \/ ManualSyncCall(c)
        \/ OnlineCall(c)
        \/ \E ch \in channels[c], status \in Statuses : ChannelStatus(c, ch, status)
        \/ RetryFires(c)
        \/ \E ch \in channels[c], newCode \in GameCodes : RedirectPayload(c, ch, newCode)
        \/ \E newCode \in GameCodes : JoinCall(c, newCode)
        \/ \E i \in 1..MaxAwaiting : Resume(c, i)

SpecRetries == ChannelInit /\ [][RetriesNext]_vars

\* C33: subscriptionRetries never exceeds maxSubscriptionRetries = 5; a
\* CHANNEL_ERROR or TIMED_OUT status met with fewer than 5 retries made since
\* the counter was last reset counts one more retry and schedules one setup,
\* without reporting; met with 5 retries made it schedules nothing and reports
\* the connection as lost; no other status schedules a setup; SUBSCRIBED, a
\* manual sync, the online event and a switch of the game reset the counter
SubscriptionRetryBounded ==
    [][\A c \in ChannelPlayers :
          /\ subscriptionRetries'[c] \in 0..maxSubscriptionRetries
          /\ \A ch \in channels[c], status \in Statuses :
                ChannelStatus(c, ch, status) =>
                   CASE status = "SUBSCRIBED" ->
                           /\ subscriptionRetries'[c] = 0
                           /\ retryTimers'[c] = retryTimers[c]
                           /\ lastOp'.toast = NoToast
                     [] status = "CLOSED" ->
                           /\ UNCHANGED <<subscriptionRetries, retryTimers>>
                           /\ lastOp'.toast = NoToast
                     [] OTHER ->
                           IF subscriptionRetries[c] < maxSubscriptionRetries
                           THEN /\ subscriptionRetries'[c] = subscriptionRetries[c] + 1
                                /\ retryTimers'[c] = retryTimers[c] + 1
                                /\ lastOp'.toast = NoToast
                           ELSE /\ UNCHANGED <<subscriptionRetries, retryTimers>>
                                /\ lastOp'.toast = ConnectionLostToast
          /\ (ManualSyncCall(c) \/ OnlineCall(c)) => subscriptionRetries'[c] = 0
          /\ (\E i \in 1..Len(awaiting[c]) :
                 Resume(c, i) /\ awaiting[c][i].fn = "joinNewGame")
                => subscriptionRetries'[c] = 0
          /\ retryTimers'[c] > retryTimers[c] =>
                subscriptionRetries[c] < maxSubscriptionRetries]_vars

\* five retries were made and the error that followed them has been reported
SubscriptionRetryWitness ==
    \E c \in ChannelPlayers :
        /\ subscriptionRetries[c] = maxSubscriptionRetries
        /\ lastOp # NoGame
        /\ lastOp.toast = ConnectionLostToast

-----------------------------------------------------------------------------
(* The SUBSCRIBED status in the two variants of the page *)

\* the subscribe callback of game.js with status SUBSCRIBED:
\* updateSyncStatus(true) and nothing else
SubscribedEarlier(c) ==
    /\ gameSubscription[c].status = "joining"
    /\ gameSubscription' = [gameSubscription EXCEPT ![c].status = "SUBSCRIBED"]
    /\ lastOp' = Op("SUBSCRIBED", c, 0)
    /\ UNCHANGED <<GameState, screen, subscriptionRetries, games, inbox, pending,
                   redirectTimers, backgroundSyncInterval, localStorage, now, boardVars,
                   channelVars>>

\* card clicks and their upserts while the channels of the two clients reach
\* SUBSCRIBED, on a page of supabase-config.js or on a page of game.js
SubscribeNext ==
    \/ \E c \in PLAYER_IDS, index \in CardInputs : CardClick(c, index)
    \/ \E req \in pending : UpsertOk(req)
    \/ \E c \in PLAYER_IDS : Subscribed(c)
    \/ \E c \in PLAYER_IDS : SubscribedEarlier(c)

SpecSubscribe == NetworkInit /\ [][SubscribeNext]_vars

\* C34: every SUBSCRIBED status is followed by one fetch of the record of the
\* current GameCode: when the call is over the client holds that record if
\* its last_action is strictly greater than the local lastAction, and its own
\* state otherwise
SubscribedReconciles ==
    [][\A c \in PLAYER_IDS :
          (gameSubscription[c].status = "joining"
             /\ gameSubscription'[c].status = "SUBSCRIBED")
            => GameState'[c] =
                  IF /\ Fetch(GameState[c].gameCode) # NoRow
                     /\ IsNewer(Fetch(GameState[c].gameCode), GameState[c])
                  THEN applySyncedState(GameState[c], Fetch(GameState[c].gameCode))
                  ELSE GameState[c]]_vars

-----------------------------------------------------------------------------
(* Local mutations and their publish *)

\* the step is a handler of client c that mutates GameState: a card click, a
\* give-clue click, an end-turn click, a toggle of a clue or a choice of role
LocalMutation(c) ==
    \/ LocalOperation(c)
    \/ \E index \in ToggleInputs : ToggleClick(c, index)
    \/ \E role \in RoleInputs : SelectRole(c, role)

\* the step starts an upsert of client c that carries the state the client
\* holds after the step
Publishes(c) ==
    \E req \in pending' \ pending :
        /\ req.kind = "upsert"
        /\ req.player = c
        /\ req.retryCount = 0
        /\ req.syncState = getSyncableState(GameState'[c], now)

\* the handlers that mutate GameState, with every input, and the upserts
\* that let the page be redrawn
MutationsNext ==
    \/ \E c \in PLAYER_IDS, index \in CardInputs : CardClick(c, index)
    \/ \E c \in PLAYER_IDS, word \in ClueWords, number \in ClueNumbers :
          GiveClueClick(c, word, number)
    \/ \E c \in PLAYER_IDS : EndTurnClick(c)
    \/ \E c \in PLAYER_IDS, index \in ToggleInputs : ToggleClick(c, index)
    \/ \E c \in PLAYER_IDS, role \in RoleInputs : SelectRole(c, role)
    \/ \E req \in pending : UpsertOk(req)

SpecMutations == Init /\ [][MutationsNext]_vars

\* C35: every handler that mutates the shared state (an accepted giveClue, a
\* revealCard in each of its branches, an endTurn, a toggleClueApplies within
\* range, a choice of role) calls saveGameState with the mutated state in the
\* same step, before any other mutation is applied; a handler that rejects
\* its input mutates nothing
MutationsPublished ==
    [][\A c \in PLAYER_IDS :
          LocalMutation(c) =>
             IF GameState'[c] # GameState[c]
             THEN Publishes(c)
             ELSE pending' = pending \/ Publishes(c)]_vars

\* the record in the store lacks a reveal of a client whose first upsert of
\* the state it holds is in flight
MutationsPublishedWitness ==
    \E req \in pending :
        /\ req.kind = "upsert"
        /\ req.retryCount = 0
        /\ GameState[req.player].gameCode = CodeA
        /\ games[CodeA].revealed # GameState[req.player].revealed
        /\ req.syncState.revealed = GameState[req.player].revealed

-----------------------------------------------------------------------------
(* The remaining counts *)

\* the number of cards of the team on g's board that are not revealed
Unrevealed(g, team) ==
    Cardinality({i \in 1..25 : g.cardTypes[i] = team /\ ~g.revealed[i]})

-----------------------------------------------------------------------------
(* The end of the game *)

\* the assassin card of g's board is revealed
AssassinRevealed(g) ==
    \E i \in 1..25 : g.cardTypes[i] = "assassin" /\ g.revealed[i]

\* gameOver and winner agree, and a game that is over was won by the count
\* or lost to the assassin
GameOverByRule(g) ==
    /\ g.gameOver <=> g.winner # null
    /\ g.gameOver => (AssassinRevealed(g) \/ Remaining(g, g.winner) = 0)

-----------------------------------------------------------------------------
(* Snapshots older than the client's own action *)

\* the last_action of the latest getSyncableState() of client c for its game,
\* which saveGameState has written to the local cache: the time of the
\* client's own latest action, 0 without one
OwnActionTime(c) ==
    IF localStorage[c].state[GameState[c].gameCode] = NoRow
    THEN 0
    ELSE localStorage[c].state[GameState[c].gameCode].syncState.last_action

\* C38: a notification or a poll that carries a record whose last_action is
\* earlier than the client's own latest giveClue, revealCard or endTurn is
\* discarded: the client keeps its state
StaleSnapshotDiscarded ==
    [][\A c \in PLAYER_IDS :
          /\ (/\ Notification(c)
              /\ Head(inbox[c]).new_game_redirect = nullString
              /\ Head(inbox[c]).last_action < OwnActionTime(c))
                => GameState'[c] = GameState[c]
          /\ (/\ BackgroundSync(c)
              /\ Fetch(GameState[c].gameCode) # NoRow
              /\ Fetch(GameState[c].gameCode).last_action < OwnActionTime(c))
                => GameState'[c] = GameState[c]]_vars

-----------------------------------------------------------------------------
(* A switch to a new game *)

\* the fresh initial state of a game: the GameState of a page that has held
\* no other game, once initializeGame has run
FreshGame(gameCode) == initializeGame(InitialGameState, gameCode)

\* C39: after initializeGame(newCode, true), whatever the client did in the
\* game it leaves, its state is the fresh initial state of newCode (nothing
\* revealed, currentTurn = startingTeam, counts 9 and 8, no winner, no clue,
\* no guesses, empty clueHistory, empty players, lastAction null), and the
\* first record published for newCode carries nothing of the game left
SwitchCarriesNothing ==
    [][\A c \in PLAYER_IDS, newCode \in GameCodes :
          NewGameFromBoard(c, newCode) =>
             /\ [GameState'[c] EXCEPT !.playerRole = null] = FreshGame(newCode)
             /\ \A req \in pending' \ pending :
                   req.syncState = getSyncableState(FreshGame(newCode), now)]_vars

-----------------------------------------------------------------------------
(* The round trip of a published record *)

\* loadLocalState(gameCode): JSON.parse of the item saveGameState wrote, which
\* holds the columns of the record beside playerRole; NoRow without an item.
\* JSON.stringify and JSON.parse keep the booleans, integers, strings, nulls,
\* arrays and plain objects a record is made of
loadLocalState(storage, gameCode) ==
    IF storage.state[gameCode] = NoRow THEN NoRow ELSE storage.state[gameCode].syncState

\* C40: for every reachable GameState, applySyncedState of the record that
\* getSyncableState produces, taken directly or read back from the local
\* cache by loadLocalState, yields the same revealed, currentTurn,
\* redRemaining, blueRemaining, gameOver, winner, currentClue,
\* currentClueNumber, guessesRemaining, clueHistory and players
PublishAdoptRoundTrip ==
    \A c \in PLAYER_IDS :
        /\ SyncedFields(applySyncedState(GameState[c], getSyncableState(GameState[c], now)))
              = SyncedFields(GameState[c])
        /\ loadLocalState(localStorage[c], GameState[c].gameCode) # NoRow =>
              SyncedFields(applySyncedState(
                              GameState[c],
                              loadLocalState(localStorage[c], GameState[c].gameCode)))
                 = SyncedFields(GameState[c])

\* the cache holds the record the client published of a game that is over
\* with a count at 0
PublishAdoptRoundTripWitness ==
    \E c \in PLAYER_IDS :
        /\ loadLocalState(localStorage[c], GameState[c].gameCode) # NoRow
        /\ GameState[c].gameOver
        /\ GameState[c].redRemaining = 0 \/ GameState[c].blueRemaining = 0
        /\ loadLocalState(localStorage[c], GameState[c].gameCode).game_over
====
